---------------------------- MODULE Spec2Model ----------------------------
(***************************************************************************)
(* A model of the bond cashflow engine of johndecb/bond_project:           *)
(*   - utils/jcb_calendar.py    business-day calendar                      *)
(*   - cashflow_model/conv_bond_model.py   schedule, accrual, price/yield  *)
(*                                                                         *)
(* Dates are proleptic Gregorian ordinals (datetime.date.toordinal()).     *)
(* Floats are modelled by exact numbers: small rationals <<n, d>> for      *)
(* rates and accrual factors, arbitrary-precision rationals for prices.    *)
(***************************************************************************)
EXTENDS Integers, Sequences, FiniteSets, TLC

VARIABLES calendar, model, call, ret

vars == <<calendar, model, call, ret>>

(***************************************************************************)
(* Results of a call: a value, or the exception the call raised.           *)
(***************************************************************************)
Ok(v) == [err |-> "none", val |-> v]

Raise(e) == [err |-> e, val |-> 0]

\* the one element of a set of one: the({e(x) : x \in {v}}) is e(v) with v
\* worked out once
the(S) == CHOOSE x \in S : TRUE

NoModel == [kind |-> "none"]

NoCalendar == [kind |-> "none"]

NoCall == [op |-> "none"]

(***************************************************************************)
(* datetime.date: ordinals, (year, month, day), weekday, month arithmetic. *)
(***************************************************************************)
is_leap(y) == (y % 4 = 0) /\ ((y % 100 # 0) \/ (y % 400 = 0))

days_in_month(y, m) ==
    IF m = 2 THEN (IF is_leap(y) THEN 29 ELSE 28)
    ELSE IF m \in {4, 6, 9, 11} THEN 30 ELSE 31

\* the days of the year before the first of month m
days_before_month(y, m) ==
    <<0, 31, 59, 90, 120, 151, 181, 212, 243, 273, 304, 334>>[m]
    + (IF m > 2 /\ is_leap(y) THEN 1 ELSE 0)

days_before_year(y) ==
    LET p == y - 1 IN p * 365 + (p \div 4) - (p \div 100) + (p \div 400)

\* date(y, m, d).toordinal()
date(y, m, d) == days_before_year(y) + days_before_month(y, m) + d

\* date.fromordinal(n).year: the year y with
\* days_before_year(y) < n <= days_before_year(y + 1)
year_of(n) ==
    CHOOSE y \in (n \div 366) .. ((n \div 365) + 1) :
        days_before_year(y) < n /\ n <= days_before_year(y + 1)

\* the month of the day numbered rest within year y
month_of_day(y, rest) ==
    CHOOSE m \in 1 .. 12 :
        /\ days_before_month(y, m) < rest
        /\ rest <= days_before_month(y, m) + days_in_month(y, m)

ymd_in_month(y, m, rest) == <<y, m, rest - days_before_month(y, m)>>

ymd_in_year(y, rest) == ymd_in_month(y, month_of_day(y, rest), rest)

ymd_of_year(y, n) == ymd_in_year(y, n - days_before_year(y))

\* date.fromordinal(n) as <<year, month, day>>
ymd(n) == the({ymd_of_year(y, n) : y \in {year_of(n)}})

month_of(n) == ymd(n)[2]

day_of(n) == ymd(n)[3]

\* date.weekday(): Monday is 0, Sunday is 6
weekday(n) == (n + 6) % 7

clip_day(y, m, d, last) == date(y, m, IF d < last THEN d ELSE last)

month_index(t, d) == clip_day(t \div 12, (t % 12) + 1, d, days_in_month(t \div 12, (t % 12) + 1))

add_months_ymd(c, k) == month_index(c[1] * 12 + (c[2] - 1) + k, c[3])

\* d + relativedelta(months=k), k of either sign: the day is clipped to the
\* length of the target month
add_months(n, k) == the({add_months_ymd(c, k) : c \in {ymd(n)}})

(***************************************************************************)
(* Exact rationals <<n, d>>, d > 0, in lowest terms: the values the code   *)
(* holds in floats (rates, accrual factors, accrued interest).             *)
(***************************************************************************)
RECURSIVE gcd(_, _)
gcd(a, b) == IF b = 0 THEN a ELSE gcd(b, a % b)

abs(x) == IF x < 0 THEN -x ELSE x

q_norm(n, d) ==
    LET g == gcd(abs(n), abs(d))
        sg == IF d < 0 THEN -1 ELSE 1
    IN  <<sg * (n \div g), sg * (d \div g)>>

q_int(i) == <<i, 1>>

q_mul(a, b) ==
    LET x == q_norm(a[1], b[2])
        y == q_norm(b[1], a[2])
    IN  q_norm(x[1] * y[1], x[2] * y[2])

q_div(a, b) == q_mul(a, q_norm(b[2], b[1]))

q_add(a, b) ==
    LET g == gcd(a[2], b[2])
    IN  q_norm(a[1] * (b[2] \div g) + b[1] * (a[2] \div g), (a[2] \div g) * b[2])

q_neg(a) == <<-a[1], a[2]>>

q_sub(a, b) == q_add(a, q_neg(b))

\* denominators are positive
q_lt(a, b) == a[1] * b[2] < b[1] * a[2]

q_le(a, b) == a[1] * b[2] <= b[1] * a[2]

q_min(a, b) == IF q_lt(b, a) THEN b ELSE a

q_max(a, b) == IF q_lt(a, b) THEN b ELSE a

(***************************************************************************)
(* Decimals with ten places, [whole, hi, lo]: whole + hi/10^5 + lo/10^10,  *)
(* hi and lo in 0 .. 99999.  These are the values round(x, 10) returns.    *)
(***************************************************************************)
\* the next five decimal places of r / d for 0 <= r < d, and what is left:
\* two places, then three
digits(r, d) ==
    <<((r * 100) \div d) * 1000 + ((((r * 100) % d) * 1000) \div d),
      (((r * 100) % d) * 1000) % d>>

dec_succ(x) ==
    IF x.lo + 1 < 100000 THEN [x EXCEPT !.lo = x.lo + 1]
    ELSE IF x.hi + 1 < 100000 THEN [x EXCEPT !.lo = 0, !.hi = x.hi + 1]
    ELSE [whole |-> x.whole + 1, hi |-> 0, lo |-> 0]

\* ten places, the rest cut off
round10_truncates(x) ==
    [whole |-> x[1] \div x[2],
     hi    |-> digits(x[1] % x[2], x[2])[1],
     lo    |-> digits(digits(x[1] % x[2], x[2])[2], x[2])[1]]

\* round(x, 10) for x >= 0: ten places, ties to the even last digit
round10(x) ==
    LET w  == x[1] \div x[2]
        h  == digits(x[1] % x[2], x[2])
        l  == digits(h[2], x[2])
        t  == [whole |-> w, hi |-> h[1], lo |-> l[1]]
        up == (2 * l[2] > x[2]) \/ (2 * l[2] = x[2] /\ l[1] % 2 = 1)
    IN  IF up THEN dec_succ(t) ELSE t

dec_of_int(i) == [whole |-> i, hi |-> 0, lo |-> 0]

(***************************************************************************)
(* Natural numbers of any size: sequences of base-10000 digits, least      *)
(* significant first, without leading zeros (zero is the empty sequence).  *)
(***************************************************************************)
RECURSIVE bn_of(_)
bn_of(i) == IF i = 0 THEN <<>> ELSE <<i % 10000>> \o bn_of(i \div 10000)

\* the place of the most significant digit that is not 0; 0 when there is none
bn_top(a) ==
    IF \A i \in DOMAIN a : a[i] = 0 THEN 0
    ELSE CHOOSE i \in DOMAIN a : a[i] # 0 /\ \A k \in (i + 1) .. Len(a) : a[k] = 0

\* the digits without the zeros at the most significant end
bn_trim(a) == SubSeq(a, 1, bn_top(a))

bn_digit(a, i) == IF i <= Len(a) THEN a[i] ELSE 0

bn_sum_at(a, b, i) == bn_digit(a, i) + bn_digit(b, i)

\* a carry comes into place i: the nearest lower place whose digits do not
\* add up to 9999 adds up to 10000 or more
bn_carry_into(a, b, i) ==
    IF i = 1 THEN FALSE
    ELSE IF bn_sum_at(a, b, i - 1) # 9999 THEN bn_sum_at(a, b, i - 1) >= 10000
    ELSE \E j \in 1 .. (i - 2) :
            /\ bn_sum_at(a, b, j) >= 10000
            /\ \A k \in (j + 1) .. (i - 1) : bn_sum_at(a, b, k) = 9999

bn_add_places(a, b, n) ==
    [i \in 1 .. n |-> (bn_sum_at(a, b, i) + (IF bn_carry_into(a, b, i) THEN 1 ELSE 0))
                         % 10000]

bn_add(a, b) ==
    IF a = <<>> THEN bn_trim(b)
    ELSE IF b = <<>> THEN bn_trim(a)
    ELSE IF Len(a) = 1 /\ Len(b) = 1 THEN bn_of(a[1] + b[1])
    ELSE bn_trim(bn_add_places(a, b, (IF Len(a) > Len(b) THEN Len(a) ELSE Len(b)) + 1)
                 \o <<>>)

bn_diff_at(a, b, i) == a[i] - bn_digit(b, i)

\* a borrow is taken from place i: the nearest lower place whose digits
\* differ has the smaller digit in a
bn_borrow_from(a, b, i) ==
    IF i = 1 THEN FALSE
    ELSE IF bn_diff_at(a, b, i - 1) # 0 THEN bn_diff_at(a, b, i - 1) < 0
    ELSE \E j \in 1 .. (i - 2) :
            /\ bn_diff_at(a, b, j) < 0
            /\ \A k \in (j + 1) .. (i - 1) : bn_diff_at(a, b, k) = 0

bn_sub_places(a, b) ==
    [i \in 1 .. Len(a) |->
        (bn_diff_at(a, b, i) + 10000 - (IF bn_borrow_from(a, b, i) THEN 1 ELSE 0))
           % 10000]

\* a - b for a >= b
bn_sub(a, b) ==
    IF Len(a) = 1 THEN bn_of(a[1] - bn_digit(b, 1))
    ELSE bn_trim(bn_sub_places(a, b) \o <<>>)

\* a * k for 0 <= k < 10000: the low halves of the digit products, and the
\* high halves one place up
bn_scale(a, k) ==
    IF a = <<>> \/ k = 0 THEN <<>>
    ELSE bn_add([i \in 1 .. Len(a) |-> (a[i] * k) % 10000] \o <<>>,
                <<0>> \o [i \in 1 .. Len(a) |-> (a[i] * k) \div 10000])

\* a * 10000^n
bn_shift(a, n) == [i \in 1 .. n |-> 0] \o a

\* the low (or high) half of the product of digit i of a and the digit of b
\* that meets it in column k
bn_half_product(a, b, k, i, high) ==
    IF high THEN (a[i] * b[k + 1 - i]) \div 10000 ELSE (a[i] * b[k + 1 - i]) % 10000

\* the sum of these halves over the digits lo .. hi of a
RECURSIVE bn_column_part(_, _, _, _, _, _)
bn_column_part(a, b, k, lo, hi, high) ==
    IF lo > hi THEN 0
    ELSE IF lo = hi THEN bn_half_product(a, b, k, lo, high)
    ELSE bn_column_part(a, b, k, lo, (lo + hi) \div 2, high)
         + bn_column_part(a, b, k, ((lo + hi) \div 2) + 1, hi, high)

\* the sum over the whole of column k
bn_column(a, b, k, high) ==
    bn_column_part(a, b, k,
                   IF k + 1 - Len(b) > 1 THEN k + 1 - Len(b) ELSE 1,
                   IF k < Len(a) THEN k ELSE Len(a),
                   high)

\* the column sums written as two digits each: the units, or the ten-thousands
bn_columns(a, b, high, upper) ==
    [k \in 1 .. (Len(a) + Len(b) - 1) |->
        IF upper THEN bn_column(a, b, k, high) \div 10000
        ELSE bn_column(a, b, k, high) % 10000] \o <<>>

\* long multiplication, column by column
bn_mul(a, b) ==
    IF a = <<>> \/ b = <<>> THEN <<>>
    ELSE IF Len(a) = 1 /\ Len(b) = 1 THEN bn_of(a[1] * b[1])
    ELSE bn_add(bn_add(bn_columns(a, b, FALSE, FALSE),
                       bn_shift(bn_columns(a, b, FALSE, TRUE), 1)),
                bn_add(bn_shift(bn_columns(a, b, TRUE, FALSE), 1),
                       bn_shift(bn_columns(a, b, TRUE, TRUE), 2)))

\* -1, 0 or 1 as a < b, a = b or a > b
bn_cmp(a, b) ==
    IF Len(a) < Len(b) THEN -1
    ELSE IF Len(a) > Len(b) THEN 1
    ELSE IF a = b THEN 0
    ELSE IF \E i \in DOMAIN a : /\ a[i] < b[i]
                                /\ \A k \in (i + 1) .. Len(a) : a[k] = b[k]
         THEN -1
         ELSE 1

\* a \div k for 0 < k < 10000, from the most significant digit down
RECURSIVE bn_div_from(_, _, _, _)
bn_div_from(a, k, i, rem) ==
    IF i = 0 THEN <<>>
    ELSE bn_div_from(a, k, i - 1, (rem * 10000 + a[i]) % k)
         \o <<(rem * 10000 + a[i]) \div k>>

bn_div(a, k) == bn_trim(bn_div_from(a, k, Len(a), 0))

RECURSIVE bn_pow(_, _)
bn_pow(a, n) == IF n = 0 THEN <<1>> ELSE bn_mul(a, bn_pow(a, n - 1))

(***************************************************************************)
(* Integers of any size [neg, mag], and rationals [num, den] over them     *)
(* (den > 0, not reduced): the values the pricing code holds in floats.    *)
(***************************************************************************)
z_make(neg, mag) == [neg |-> neg /\ mag # <<>>, mag |-> mag]

z_of(i) == z_make(i < 0, bn_of(abs(i)))

z_neg(x) == z_make(~x.neg, x.mag)

z_sign(x) == IF x.mag = <<>> THEN 0 ELSE IF x.neg THEN -1 ELSE 1

z_add_mixed(x, y, c) ==
    IF c >= 0 THEN z_make(x.neg, bn_sub(x.mag, y.mag))
    ELSE z_make(y.neg, bn_sub(y.mag, x.mag))

z_add(x, y) ==
    IF x.neg = y.neg THEN z_make(x.neg, bn_add(x.mag, y.mag))
    ELSE z_add_mixed(x, y, bn_cmp(x.mag, y.mag))

z_sub(x, y) == z_add(x, z_neg(y))

z_mul(x, y) == z_make(x.neg # y.neg, bn_mul(x.mag, y.mag))

z_scale(x, m) == z_make(x.neg, bn_mul(x.mag, m))

z_cmp(x, y) == z_sign(z_sub(x, y))

\* x / 2, exact when x is even
z_half(x) == z_make(x.neg, bn_div(x.mag, 2))

r_make(num, den) == [num |-> num, den |-> den]

r_of_int(i) == r_make(z_of(i), <<1>>)

r_of_q(a) == r_make(z_of(a[1]), bn_of(a[2]))

\* a ten-place decimal as a rational over 10^10
r_of_dec(x) ==
    r_make(z_make(FALSE, bn_trim(<<x.lo % 10000,
                                   (x.lo \div 10000) + 10 * (x.hi % 1000),
                                   (x.hi \div 1000) + 100 * (x.whole % 100),
                                   (x.whole \div 100) % 10000,
                                   x.whole \div 1000000>>)),
           <<0, 0, 100>>)

\* denominators are positive
r_add(x, y) ==
    CASE x.den # <<>> /\ y.den # <<>> ->
        r_make(z_add(z_scale(x.num, y.den), z_scale(y.num, x.den)), bn_mul(x.den, y.den))

r_neg(x) == r_make(z_neg(x.num), x.den)

r_sub(x, y) == r_add(x, r_neg(y))

r_mul(x, y) ==
    CASE x.den # <<>> /\ y.den # <<>> ->
        r_make(z_mul(x.num, y.num), bn_mul(x.den, y.den))

r_sign(x) == z_sign(x.num)

r_abs(x) == r_make(z_make(FALSE, x.num.mag), x.den)

r_cmp(x, y) ==
    CASE x.den # <<>> /\ y.den # <<>> ->
        z_cmp(z_scale(x.num, y.den), z_scale(y.num, x.den))

r_eq(x, y) == r_cmp(x, y) = 0

r_lt(x, y) == r_cmp(x, y) < 0

r_le(x, y) == r_cmp(x, y) <= 0

(***************************************************************************)
(* utils/jcb_calendar.py                                                   *)
(***************************************************************************)
\* the predicate local to adjust_to_business_day: Saturday and Sunday are
\* fixed as the weekend here
is_business_day(x, holidays) == weekday(x) < 5 /\ x \notin holidays

\* a roll that steps before it tests (do-while instead of while)
RECURSIVE roll_forward_steps_first(_, _)
roll_forward_steps_first(d, holidays) ==
    IF is_business_day(d + 1, holidays) THEN d + 1
    ELSE roll_forward_steps_first(d + 1, holidays)

RECURSIVE roll_forward(_, _)
roll_forward(d, holidays) ==
    IF is_business_day(d, holidays) THEN d ELSE roll_forward(d + 1, holidays)

RECURSIVE roll_backward(_, _)
roll_backward(d, holidays) ==
    IF is_business_day(d, holidays) THEN d ELSE roll_backward(d - 1, holidays)

\* modified following without the month test: plain following
modified_following_no_month_test(d, holidays) == roll_forward(d, holidays)

modified_following(d, holidays) ==
    LET original_month == month_of(d)
        adjusted       == roll_forward(d, holidays)
    IN  IF month_of(adjusted) # original_month
        THEN roll_backward(d, holidays)
        ELSE adjusted

adjust_to_business_day(d, holidays, convention) ==
    IF convention = "f" THEN Ok(roll_forward(d, holidays))
    ELSE IF convention = "p" THEN Ok(roll_backward(d, holidays))
    ELSE IF convention = "mf" THEN Ok(modified_following(d, holidays))
    ELSE Raise("ValueError")

\* BusinessDayCalendar.__init__
BusinessDayCalendar(holidays, weekend) ==
    [kind |-> "BusinessDayCalendar", holidays |-> holidays, weekend |-> weekend]

\* BusinessDayCalendar.is_business_day
cal_is_business_day(self, d) ==
    (weekday(d) \notin self.weekend) /\ (d \notin self.holidays)

\* BusinessDayCalendar.adjust
adjust(self, d, convention) == adjust_to_business_day(d, self.holidays, convention)

RECURSIVE roll_next(_, _)
roll_next(self, d) ==
    IF cal_is_business_day(self, d) THEN d ELSE roll_next(self, d + 1)

next_business_day(self, d) == roll_next(self, d + 1)

RECURSIVE roll_previous(_, _)
roll_previous(self, d) ==
    IF cal_is_business_day(self, d) THEN d ELSE roll_previous(self, d - 1)

previous_business_day(self, d) == roll_previous(self, d - 1)

\* a loop that tests the date before it steps, so that the start is counted
RECURSIVE workday_loop_counts_start(_, _, _, _)
workday_loop_counts_start(self, d, step, remaining) ==
    IF remaining = 0 THEN d - step
    ELSE workday_loop_counts_start(self, d + step, step,
                                   IF cal_is_business_day(self, d)
                                   THEN remaining - 1 ELSE remaining)

RECURSIVE workday_loop(_, _, _, _)
workday_loop(self, d, step, remaining) ==
    IF remaining = 0 THEN d
    ELSE workday_loop(self, d + step, step,
                      IF cal_is_business_day(self, d + step)
                      THEN remaining - 1 ELSE remaining)

workday(self, start, days) ==
    IF days = 0
    THEN (IF cal_is_business_day(self, start) THEN start
          ELSE next_business_day(self, start))
    ELSE workday_loop(self, start, IF days > 0 THEN 1 ELSE -1,
                      IF days > 0 THEN days ELSE -days)

shift_business_days(self, d, n) == workday(self, d, n)

\* the while loop of business_days_between, from cur to end
RECURSIVE between_loop(_, _, _, _, _, _)
between_loop(self, cur, start, end, inclusive, count) ==
    IF cur > end THEN count
    ELSE between_loop(self, cur + 1, start, end, inclusive,
                      IF /\ inclusive \/ (start < cur /\ cur < end)
                         /\ cal_is_business_day(self, cur)
                      THEN count + 1 ELSE count)

\* a count that leaves the sign out
business_days_between_unsigned(self, a, b, inclusive, signed) ==
    IF a = b
    THEN (IF inclusive /\ cal_is_business_day(self, a) THEN 1 ELSE 0)
    ELSE between_loop(self, IF a > b THEN b ELSE a, IF a > b THEN b ELSE a,
                      IF a > b THEN a ELSE b, inclusive, 0)

business_days_between(self, a, b, inclusive, signed) ==
    IF a = b
    THEN (IF inclusive /\ cal_is_business_day(self, a) THEN 1 ELSE 0)
    ELSE between_loop(self, IF a > b THEN b ELSE a, IF a > b THEN b ELSE a,
                      IF a > b THEN a ELSE b, inclusive, 0)
         * (IF signed THEN (IF a > b THEN -1 ELSE 1) ELSE 1)

(***************************************************************************)
(* cashflow_model/conv_bond_model.py: CashflowModel                        *)
(***************************************************************************)
\* an absent optional date (None); no date has ordinal 0
NoDate == 0

\* str.strip() on the stub hints the model is built with
strip(s) ==
    IF s \in {" Long First", "Long First ", " Long First "} THEN "Long First"
    ELSE IF s \in {" Short First", "Short First ", " Short First "} THEN "Short First"
    ELSE s

\* a float too small for a fraction: so many units of 2^-1074, the least
\* magnitude a float has; the sign of a zero is kept
\* written <<units, "x 2^-1074", sign bit>>, beside the fractions <<n, d>>
subnormal(units) == <<units, "x 2^-1074", units < 0>>

is_subnormal(x) == Len(x) = 3

\* k / n rounded to the nearest whole number, a tie to the even one
half_even(k, n) ==
    IF 2 * (k % n) < n THEN k \div n
    ELSE IF 2 * (k % n) > n THEN (k \div n) + 1
    ELSE (k \div n) + ((k \div n) % 2)

\* coupon_rate / 100.0
percent_of(x) ==
    IF is_subnormal(x)
    THEN <<IF x[3] THEN -half_even(-x[1], 100) ELSE half_even(x[1], 100), x[2], x[3]>>
    ELSE q_div(x, q_int(100))

\* x < 0, which no zero is
float_negative(x) == IF is_subnormal(x) THEN x[1] < 0 ELSE q_lt(x, q_int(0))

\* 0.0 <= x <= 20.0
realistic_gilt_range(x) ==
    IF is_subnormal(x) THEN x[1] >= 0 /\ ~x[3]
    ELSE q_le(q_int(0), x) /\ q_le(x, q_int(20))

\* a zero is the fraction 0 in everything computed from the rate
rate_kept(cr) == IF is_subnormal(cr) /\ cr[1] = 0 THEN q_int(0) ELSE cr

\* CashflowModel.__init__: the arguments are the record a
CashflowModel(a) ==
    LET cr == IF a.rate_unit = "percent" THEN percent_of(a.coupon_rate)
              ELSE IF a.rate_unit = "decimal" THEN a.coupon_rate
              ELSE IF realistic_gilt_range(a.coupon_rate)
                   THEN percent_of(a.coupon_rate)
                   ELSE a.coupon_rate
    IN  IF float_negative(cr) THEN Raise("ValueError")
        ELSE IF a.frequency \notin {1, 2, 4, 12} THEN Raise("ValueError")
        ELSE Ok([kind                |-> "CashflowModel",
                 coupon_rate         |-> rate_kept(cr),
                 issue_date          |-> a.issue_date,
                 maturity_date       |-> a.maturity_date,
                 frequency           |-> a.frequency,
                 notional            |-> a.notional,
                 calendar            |-> a.calendar,
                 convention          |-> a.convention,
                 first_coupon_length |-> a.first_coupon_length,
                 first_coupon_date   |-> a.first_coupon_date,
                 last_coupon_date    |-> a.last_coupon_date])

_adjust(self, dt) ==
    IF self.calendar.kind # "none"
    THEN adjust(self.calendar, dt, self.convention)
    ELSE Ok(dt)

_days(a, b) == b - a

_regular_period_days(self, quasi_end, months) ==
    _days(add_months(quasi_end, -months), quasi_end)

_accrual_factor(self, start, end, quasi_end, months) ==
    LET nominal_start == add_months(quasi_end, -months)
        d0     == _days(start, end)
        actual == IF d0 > 0 THEN d0 ELSE 0
        r0     == _regular_period_days(self, quasi_end, months)
        denom  == IF r0 > 1 THEN r0 ELSE 1
    IN  IF start = nominal_start THEN q_norm(1, self.frequency)
        ELSE q_div(q_norm(actual, denom), q_int(self.frequency))

_coupon_amount(self, accrual_factor) ==
    q_mul(q_mul(self.notional, self.coupon_rate), accrual_factor)

_months_per_period(self) == 12 \div self.frequency

\* sorted(S) for a set of dates
sorted(S) ==
    [i \in 1 .. Cardinality(S) |->
        CHOOSE x \in S : Cardinality({y \in S : y < x}) = i - 1] \o <<>>

\* the loop that steps back from maturity: while cur > issue_date
RECURSIVE backward_dates(_, _, _)
backward_dates(cur, issue_date, months) ==
    IF cur > issue_date
    THEN {cur} \cup backward_dates(add_months(cur, -months), issue_date, months)
    ELSE {}

\* principal on every row
principal_on_every_row(self, period_end) == self.notional

\* principal only at maturity
principal_of(self, period_end) ==
    IF period_end = self.maturity_date THEN self.notional ELSE q_int(0)

\* the note of a first period that is a stub
first_stub_note(self, period_start, nominal_start) ==
    IF self.first_coupon_length \in {"Short First", "Long First"}
    THEN self.first_coupon_length
    ELSE IF period_start > nominal_start THEN "Short First" ELSE "Long First"

\* note = (note + " + Last Stub") if note else "Last Stub"; "" stands for None
stub_note(first_note, last_stub) ==
    IF ~last_stub THEN first_note
    ELSE IF first_note # "" THEN first_note \o " + Last Stub"
    ELSE "Last Stub"

row_record(self, period_start, period_end, adjusted_end, first_stub, last_stub, first_note, accrual) ==
    [period_start   |-> period_start,
     period_end     |-> period_end,
     quasi_date     |-> period_end,
     adjusted_date  |-> adjusted_end.val,
     adjust_err     |-> adjusted_end.err,
     is_stub        |-> first_stub \/ last_stub,
     accrual_factor |-> accrual,
     coupon_amount  |-> round10(_coupon_amount(self, accrual)),
     principal      |-> principal_of(self, period_end),
     note           |-> stub_note(first_note, last_stub)]

\* the stub classification of one period
classified_row(self, period_start, period_end, is_first, months, nominal_start) ==
    row_record(self, period_start, period_end, _adjust(self, period_end),
               is_first /\ period_start # nominal_start,
               /\ self.last_coupon_date # NoDate
               /\ period_end = (IF self.last_coupon_date # NoDate
                                THEN self.last_coupon_date ELSE self.maturity_date)
               /\ period_start # nominal_start,
               IF is_first /\ period_start # nominal_start
               THEN first_stub_note(self, period_start, nominal_start) ELSE "",
               _accrual_factor(self, period_start, period_end, period_end, months))

\* one pass of the loop over consecutive quasi dates (i is 1-based here:
\* the period runs from quasi_dates[i] to quasi_dates[i + 1], which are
\* distinct and in order, so no pass is skipped)
cashflow_row(self, quasi_dates, i, months) ==
    classified_row(self, quasi_dates[i], quasi_dates[i + 1], i = 1, months,
                   add_months(quasi_dates[i + 1], -months))

\* the fields of CashflowRow
CashflowRow(r) ==
    [period_start   |-> r.period_start,
     period_end     |-> r.period_end,
     quasi_date     |-> r.quasi_date,
     adjusted_date  |-> r.adjusted_date,
     is_stub        |-> r.is_stub,
     accrual_factor |-> r.accrual_factor,
     coupon_amount  |-> r.coupon_amount,
     principal      |-> r.principal,
     note           |-> r.note]

\* the dates stepped back from maturity and the last coupon date only
boundaries_without_issue(self, months) ==
    backward_dates(self.maturity_date, self.issue_date, months)
    \cup (IF self.last_coupon_date # NoDate THEN {self.last_coupon_date} ELSE {})

\* the dates stepped back from maturity, the issue date and the last coupon date
boundaries(self, months) ==
    backward_dates(self.maturity_date, self.issue_date, months)
    \cup {self.issue_date}
    \cup (IF self.last_coupon_date # NoDate THEN {self.last_coupon_date} ELSE {})

earliest(S) == CHOOSE x \in S : \A y \in S : x <= y

\* the effective end of the first period, NoDate when none is forced
first_end_eff(self, months, after_issue) ==
    IF strip(self.first_coupon_length) = "Long First"
    THEN (IF self.first_coupon_date # NoDate
          THEN add_months(self.first_coupon_date, months)
          ELSE add_months(earliest(after_issue), months))
    ELSE self.first_coupon_date

\* the rows returned, unless adjusting a payment date raised
returned_rows(rows) ==
    IF \E i \in DOMAIN rows : rows[i].adjust_err # "none" THEN Raise("ValueError")
    ELSE Ok([i \in DOMAIN rows |-> CashflowRow(rows[i])])

\* the two assertions and the loop over the periods
schedule_between(self, months, quasi_dates) ==
    IF Len(quasi_dates) < 2 THEN Raise("AssertionError")
    ELSE IF quasi_dates[Len(quasi_dates)] # self.maturity_date THEN Raise("AssertionError")
    ELSE returned_rows([i \in 1 .. (Len(quasi_dates) - 1) |->
                           cashflow_row(self, quasi_dates, i, months)])

schedule_with_first_end(self, months, dates, first_end) ==
    IF first_end # NoDate
       /\ ~(self.issue_date < first_end /\ first_end <= self.maturity_date)
    THEN Raise("ValueError")
    ELSE the({schedule_between(self, months, quasi_dates) :
                 quasi_dates \in {sorted(IF first_end # NoDate
                                         THEN {d \in dates \cup {first_end} :
                                                  ~(self.issue_date < d /\ d < first_end)}
                                         ELSE dates)}})

schedule_from(self, months, dates) ==
    IF /\ strip(self.first_coupon_length) = "Long First"
       /\ self.first_coupon_date = NoDate
       /\ {d \in dates : d > self.issue_date} = {}
    THEN Raise("ValueError")
    ELSE schedule_with_first_end(self, months, dates,
                                 first_end_eff(self, months,
                                               {d \in dates : d > self.issue_date}))

generate_cashflow_schedule(self) ==
    IF self.last_coupon_date # NoDate
       /\ ~(self.issue_date < self.last_coupon_date
            /\ self.last_coupon_date < self.maturity_date)
    THEN Raise("ValueError")
    ELSE the({schedule_from(self, _months_per_period(self), dates) :
                 dates \in {boundaries(self, _months_per_period(self))}})

(***************************************************************************)
(* Yields are whole numbers of units of 10^-9 / 512: every anchor of the    *)
(* solver and every midpoint of its eight bisections is such a number.     *)
(* Prices, present values and tolerances are rationals.                    *)
(***************************************************************************)
\* units in a yield of 1.0: 512 * 10^9
yield_den == <<0, 0, 5120>>

\* c hundredths, and n times 10^-9, in yield units
yu_centi(c) == z_scale(z_of(c), <<0, 2000, 51>>)

yu_nano(n) == z_scale(z_of(n), <<512>>)

\* a rate held as a small fraction, in yield units
yu_of_q(a) == z_make(a[1] < 0, bn_div(bn_scale(yield_den, abs(a[1])), a[2]))

z_max(x, y) == IF z_cmp(x, y) >= 0 THEN x ELSE y

r_inv(x) == r_make(z_make(FALSE, x.den), x.num.mag)

RECURSIVE r_pow(_, _)
r_pow(x, n) == IF n = 0 THEN r_of_int(1) ELSE r_mul(x, r_pow(x, n - 1))

\* the loop "for idx, row in enumerate(schedule)": the index of the period
\* holding settlement, 0 for None
RECURSIVE find_period_from(_, _, _)
find_period_from(schedule, settlement, i) ==
    IF i > Len(schedule) THEN 0
    ELSE IF schedule[i].period_start <= settlement /\ settlement < schedule[i].period_end
         THEN i
         ELSE find_period_from(schedule, settlement, i + 1)

_find_period_row(schedule, settlement) == find_period_from(schedule, settlement, 1)

_ex_div_date(self, pay_dt, ex_div_business_days) ==
    IF ex_div_business_days <= 0 THEN pay_dt
    ELSE IF self.calendar.kind # "none"
         THEN shift_business_days(self.calendar, pay_dt, -ex_div_business_days)
         ELSE pay_dt - ex_div_business_days

\* accrual that never turns negative
accrued_in_period_ignores_ex_div(self, settlement, exd, cur_row, months) ==
    _coupon_amount(self, _accrual_factor(self, cur_row.period_start, settlement,
                                         cur_row.quasi_date, months))

\* accrued_interest once the period holding settlement is found
accrued_in_period(self, settlement, exd, cur_row, months) ==
    IF settlement < exd
    THEN _coupon_amount(self, _accrual_factor(self, cur_row.period_start, settlement,
                                              cur_row.quasi_date, months))
    ELSE q_neg(_coupon_amount(self, _accrual_factor(self, settlement, cur_row.period_end,
                                                    cur_row.quasi_date, months)))

accrued_on_schedule(self, settlement, ex_div_business_days, schedule, idx) ==
    IF idx = 0 \/ settlement >= self.maturity_date THEN q_int(0)
    ELSE accrued_in_period(self, settlement,
                           _ex_div_date(self, schedule[idx].adjusted_date,
                                        ex_div_business_days),
                           schedule[idx], _months_per_period(self))

accrued_given(self, settlement, ex_div_business_days, sched) ==
    IF sched.err # "none" THEN sched
    ELSE Ok(accrued_on_schedule(self, settlement, ex_div_business_days, sched.val,
                                _find_period_row(sched.val, settlement)))

accrued_interest(self, settlement, ex_div_business_days) ==
    the({accrued_given(self, settlement, ex_div_business_days, schedule) :
            schedule \in {generate_cashflow_schedule(self)}})

\* s: the elapsed fraction of the coupon period holding settlement
elapsed_fraction(self, settlement, schedule, idx) ==
    IF idx = 0 THEN q_int(0)
    ELSE q_max(q_int(0),
               q_min(q_mul(_accrual_factor(self, schedule[idx].period_start, settlement,
                                           schedule[idx].quasi_date,
                                           _months_per_period(self)),
                           q_int(self.frequency)),
                     q_int(1)))

\* one_plus ** (-power); a power that is not whole is taken only of 1
discount_factor(one_plus, power) ==
    CASE power[2] = 1 -> r_pow(r_inv(one_plus), power[1])
      [] power[2] # 1 /\ r_eq(one_plus, r_of_int(1)) -> r_of_int(1)

\* r.coupon_amount + r.principal
cash_of(row) == r_add(r_of_dec(row.coupon_amount), r_of_q(row.principal))

\* the loop "for n, r in enumerate(future_rows, start=1)"
RECURSIVE pv_from(_, _, _, _)
pv_from(future_rows, n, one_plus, s) ==
    IF n > Len(future_rows) THEN r_of_int(0)
    ELSE r_add(r_mul(cash_of(future_rows[n]),
                     discount_factor(one_plus, q_sub(q_int(n), s))),
               pv_from(future_rows, n + 1, one_plus, s))

\* 1.0 + y / f
one_plus_of(y, f) ==
    r_make(z_add(z_make(FALSE, bn_scale(yield_den, f)), y), bn_scale(yield_den, f))

\* the ex-div gate: settlement is on or after the ex-div date of the first
\* upcoming coupon
ex_div_gate(self, settlement, ex_div_business_days, first) ==
    /\ settlement >= _ex_div_date(self, first.adjusted_date, ex_div_business_days)
    /\ settlement < first.period_end

\* inside the gate the first row is rebuilt from first.__dict__, which a
\* CashflowRow (a dataclass with slots) does not have: AttributeError
pv_of_rows(self, y, settlement, ex_div_business_days, schedule, future_rows) ==
    IF future_rows = <<>> THEN Ok(r_of_int(0))
    ELSE IF ex_div_gate(self, settlement, ex_div_business_days, future_rows[1])
         THEN Raise("AttributeError")
    ELSE IF r_sign(one_plus_of(y, self.frequency)) <= 0 THEN Raise("ValueError")
    ELSE the({Ok(pv_from(future_rows, 1, one_plus, s)) :
                 one_plus \in {one_plus_of(y, self.frequency)},
                 s \in {elapsed_fraction(self, settlement, schedule,
                                         _find_period_row(schedule, settlement))}})

pv_given(self, y, settlement, ex_div_business_days, sched) ==
    IF sched.err # "none" THEN sched
    ELSE pv_of_rows(self, y, settlement, ex_div_business_days, sched.val,
                    SelectSeq(sched.val, LAMBDA r : r.period_end > settlement))

_pv_dirty_from_yield(self, y, settlement, ex_div_business_days) ==
    the({pv_given(self, y, settlement, ex_div_business_days, schedule) :
            schedule \in {generate_cashflow_schedule(self)}})

dirty_price_from_yield(self, y, settlement, ex_div_business_days) ==
    _pv_dirty_from_yield(self, y, settlement, ex_div_business_days)

\* ex_div_business_days: int = 7
DefaultExDiv == 7

dirty_minus_accrued(dirty, ai) ==
    IF dirty.err # "none" THEN dirty
    ELSE IF ai.err # "none" THEN ai
    ELSE Ok(r_sub(dirty.val, r_of_q(ai.val)))

\* the accrued interest is taken with the default ex-div setting
clean_price_from_yield(self, y, settlement, ex_div_business_days) ==
    dirty_minus_accrued(dirty_price_from_yield(self, y, settlement, ex_div_business_days),
                        accrued_interest(self, settlement, DefaultExDiv))

\* y0 = None and bracket = None
NoYield == [kind |-> "none"]

NoBracket == <<>>

\* tol: float = 1e-9
DefaultTol == r_make(z_of(1), <<0, 0, 10>>)

\* max_iter: int = 8
DefaultMaxIter == 8

\* what the nested f(y) closes over, and the solver's settings
solver_context(self, settlement, ex_div_business_days, target_dirty, tol, max_iter) ==
    [self         |-> self,
     settlement   |-> settlement,
     ex_div       |-> ex_div_business_days,
     target_dirty |-> target_dirty,
     tol          |-> tol,
     max_iter     |-> max_iter]

pv_minus_target(pv, target_dirty) ==
    IF pv.err # "none" THEN pv ELSE Ok(r_sub(pv.val, target_dirty))

\* def f(y)
f(ctx, y) ==
    pv_minus_target(_pv_dirty_from_yield(ctx.self, y, ctx.settlement, ctx.ex_div),
                    ctx.target_dirty)

\* 0.5 * (lo + hi)
midpoint(lo, hi) == z_half(z_add(lo, hi))

\* no return yet
Pending == [err |-> "pending"]

\* one pass of "for _ in range(max_iter)" once fm = f(mid) is known
bisect_with(ctx, b, mid, fm) ==
    IF fm.err # "none" THEN [b EXCEPT !.out = fm]
    ELSE IF r_lt(r_abs(fm.val), ctx.tol) THEN [b EXCEPT !.out = Ok(mid)]
    ELSE IF r_sign(b.flo) * r_sign(fm.val) <= 0 THEN [b EXCEPT !.hi = mid]
    ELSE [b EXCEPT !.lo = mid, !.flo = fm.val]

bisect_at(ctx, b, mid) == bisect_with(ctx, b, mid, f(ctx, mid))

\* mid = 0.5 * (lo + hi); fm = f(mid); ...: nothing more once a pass returned
bisect_step(ctx, b) ==
    IF b.out # Pending THEN b ELSE bisect_at(ctx, b, midpoint(b.lo, b.hi))

\* n passes of the loop: the first half of them, then the rest
RECURSIVE bisect_steps(_, _, _)
bisect_steps(ctx, b, n) ==
    IF n <= 0 THEN b
    ELSE IF n = 1 THEN bisect_step(ctx, b)
    ELSE the({bisect_steps(ctx, h, n - (n \div 2)) :
                 h \in {bisect_steps(ctx, b, n \div 2)}})

\* return float(0.5 * (lo + hi)) when no pass returned
bisect_result(b) == IF b.out # Pending THEN b.out ELSE Ok(midpoint(b.lo, b.hi))

\* for _ in range(max_iter): ...; return float(0.5 * (lo + hi))
bisection(ctx, lo, hi, flo, iterations) ==
    bisect_result(bisect_steps(ctx, [lo |-> lo, hi |-> hi, flo |-> flo, out |-> Pending],
                               iterations))

\* min_y = -0.99 * fqy + 1e-9
min_yield(self) == z_add(yu_centi(-99 * self.frequency), yu_nano(1))

anchor_hints(self, min_y, y0) ==
    {z_max(min_y, z_sub(yu_of_q(self.coupon_rate), yu_centi(5))),
     z_add(yu_of_q(self.coupon_rate), yu_centi(5))}
    \cup (IF y0 = NoYield THEN {} ELSE {z_sub(y0, yu_centi(5)), z_add(y0, yu_centi(5))})

anchor_grid(self, min_y) ==
    {z_add(min_y, yu_nano(1)),
     yu_centi(-75 * self.frequency), yu_centi(-50 * self.frequency),
     yu_centi(-25 * self.frequency), yu_centi(-10 * self.frequency), yu_centi(-5)}
    \cup {yu_centi(c) : c \in {0, 1, 2, 5, 10, 20, 50, 100, 200, 500, 1000}}

RECURSIVE z_sorted(_)
z_sorted(S) ==
    IF S = {} THEN <<>>
    ELSE LET least == CHOOSE x \in S : \A y \in S : z_cmp(x, y) <= 0
         IN  <<least>> \o z_sorted(S \ {least})

\* sorted({a for a in anchors if a > min_y})
anchors_of(self, min_y, y0) ==
    z_sorted({a \in anchor_grid(self, min_y) \cup anchor_hints(self, min_y, y0) :
                 z_cmp(a, min_y) > 0})

\* fy = f(y) for every anchor, by its place in the sorted list
anchor_values(ctx, anchors) ==
    {[i |-> i, y |-> anchors[i], fy |-> f(ctx, anchors[i])] : i \in DOMAIN anchors}

\* last_y, last_f when the loop is at v: the anchor before v nearest to it
\* whose f(y) did not raise
is_last_before(vals, u, v) ==
    /\ u.i < v.i
    /\ u.fy.err = "none"
    /\ \A w \in vals : (u.i < w.i /\ w.i < v.i) => w.fy.err # "none"

\* the loop returns at v if it gets there: fy == 0, or fy * last_f < 0
returns_at(vals, v) ==
    /\ v.fy.err = "none"
    /\ \/ r_sign(v.fy.val) = 0
       \/ \E u \in vals : /\ is_last_before(vals, u, v)
                          /\ r_sign(v.fy.val) * r_sign(u.fy.val) < 0

bisect_from(ctx, last, v) == bisection(ctx, last.y, v.y, last.fy.val, ctx.max_iter)

scan_return(ctx, vals, v) ==
    IF r_sign(v.fy.val) = 0 THEN Ok(v.y)
    ELSE bisect_from(ctx, CHOOSE u \in vals : is_last_before(vals, u, v), v)

\* a scan that answers with a yield of zero when no anchor lets it return
scan_values_defaulting(ctx, vals) ==
    IF \A v \in vals : ~returns_at(vals, v) THEN Ok(yu_centi(0))
    ELSE scan_return(ctx, vals,
                     CHOOSE v \in vals :
                        /\ returns_at(vals, v)
                        /\ \A u \in vals : returns_at(vals, u) => v.i <= u.i)

\* for y in anchors: fy = f(y), skipped when it raises; the loop returns at
\* the first anchor where it can, and the call raises when there is none
scan_values(ctx, vals) ==
    IF \A v \in vals : ~returns_at(vals, v) THEN Raise("RuntimeError")
    ELSE scan_return(ctx, vals,
                     CHOOSE v \in vals :
                        /\ returns_at(vals, v)
                        /\ \A u \in vals : returns_at(vals, u) => v.i <= u.i)

scan_anchors(ctx, anchors) ==
    the({scan_values(ctx, vals) : vals \in {anchor_values(ctx, anchors)}})

\* the bracket the caller gave: fa, fb = f(a), f(b); widened while
\* fa * fb > 0 and expand < 12, then bisected, or left for the scan
RECURSIVE bracket_search(_, _, _, _, _, _)
bracket_search(ctx, min_y, a, b, expand, anchors) ==
    the({IF fa.err # "none" THEN fa
         ELSE IF fb.err # "none" THEN fb
         ELSE IF r_sign(fa.val) * r_sign(fb.val) > 0 /\ expand < 12
              THEN bracket_search(ctx, min_y,
                                  z_max(min_y, z_sub(a, z_sub(b, a))),
                                  z_add(b, z_sub(b, a)),
                                  expand + 1, anchors)
         ELSE IF r_sign(fa.val) = 0 THEN Ok(a)
         ELSE IF r_sign(fb.val) = 0 THEN Ok(b)
         ELSE IF r_sign(fa.val) * r_sign(fb.val) < 0
              THEN bisection(ctx, a, b, fa.val, ctx.max_iter)
              ELSE scan_anchors(ctx, anchors) :
            fa \in {f(ctx, a)}, fb \in {f(ctx, b)}})

solve_on(ctx, min_y, bracket, anchors) ==
    IF bracket # NoBracket
    THEN bracket_search(ctx, min_y,
                        z_max(min_y, bracket[1]),
                        z_max(z_add(min_y, yu_nano(1)), bracket[2]),
                        0, anchors)
    ELSE scan_anchors(ctx, anchors)

solve(ctx, min_y, y0, bracket) ==
    the({solve_on(ctx, min_y, bracket, anchors) :
            anchors \in {anchors_of(ctx.self, min_y, y0)}})

\* target_dirty = clean_price + self.accrued_interest(settlement, ex_div_business_days)
solve_with_accrued(self, clean_price, settlement, ex_div_business_days, y0, tol, max_iter, bracket, ai) ==
    IF ai.err # "none" THEN ai
    ELSE the({solve(ctx, min_yield(self), y0, bracket) :
                 ctx \in {solver_context(self, settlement, ex_div_business_days,
                                         r_add(clean_price, r_of_q(ai.val)),
                                         tol, max_iter)}})

yield_from_clean_price(self, clean_price, settlement, ex_div_business_days, y0, tol, max_iter, bracket) ==
    solve_with_accrued(self, clean_price, settlement, ex_div_business_days, y0, tol,
                       max_iter, bracket,
                       accrued_interest(self, settlement, ex_div_business_days))

(***************************************************************************)
(* numpy arrays of floats: vectors are sequences of rationals, matrices    *)
(* sequences of rows.  Sums, products and the solution of a linear system  *)
(* are exact.                                                              *)
(***************************************************************************)
RECURSIVE r_sum(_)
r_sum(v) == IF v = <<>> THEN r_of_int(0) ELSE r_add(v[1], r_sum(Tail(v)))

\* x / y for y # 0
r_div(x, y) ==
    r_make(z_make(x.num.neg # y.num.neg, bn_mul(x.num.mag, y.den)),
           bn_mul(x.den, y.num.mag))

vec_of_ints(v) == [i \in DOMAIN v |-> r_of_int(v[i])] \o <<>>

mat_of_ints(A) == [i \in DOMAIN A |-> vec_of_ints(A[i])] \o <<>>

\* u . v
dot(u, v) == r_sum([i \in DOMAIN u |-> r_mul(u[i], v[i])] \o <<>>)

column(A, j) == [i \in DOMAIN A |-> A[i][j]] \o <<>>

num_columns(A) == Len(A[1])

\* A @ x
matvec(A, x) == [i \in DOMAIN A |-> dot(A[i], x)] \o <<>>

\* A.T @ B for matrices of the same number of rows
gram(A, B) ==
    [j \in 1 .. num_columns(A) |->
        [k \in 1 .. num_columns(B) |-> dot(column(A, j), column(B, k))] \o <<>>] \o <<>>

\* A.T @ y
gram_vec(A, y) == [j \in 1 .. num_columns(A) |-> dot(column(A, j), y)] \o <<>>

without(v, j) == SubSeq(v, 1, j - 1) \o SubSeq(v, j + 1, Len(v))

\* A without row i and column j
minor(A, i, j) == [k \in 1 .. (Len(A) - 1) |-> without(without(A, i)[k], j)] \o <<>>

RECURSIVE det_along(_, _)
RECURSIVE det(_)
\* the terms j .. n of the expansion of det(A) along the first row
det_along(A, j) ==
    IF j > Len(A) THEN r_of_int(0)
    ELSE r_add(r_mul(IF j % 2 = 1 THEN A[1][j] ELSE r_neg(A[1][j]),
                     det(minor(A, 1, j))),
               det_along(A, j + 1))

det(A) == IF A = <<>> THEN r_of_int(1) ELSE det_along(A, 1)

replace_column(A, j, b) ==
    [i \in DOMAIN A |->
        [k \in DOMAIN A[i] |-> IF k = j THEN b[i] ELSE A[i][k]] \o <<>>] \o <<>>

\* np.linalg.solve(A, b): the solution of A x = b, LinAlgError when A is
\* singular
linalg_solve(A, b) ==
    IF r_sign(det(A)) = 0 THEN Raise("LinAlgError")
    ELSE Ok([j \in DOMAIN A |-> r_div(det(replace_column(A, j, b)), det(A))] \o <<>>)

\* np.linalg.inv(A), LinAlgError when A is singular
linalg_inv(A) ==
    IF r_sign(det(A)) = 0 THEN Raise("LinAlgError")
    ELSE Ok([j \in DOMAIN A |->
               [k \in DOMAIN A |->
                   r_div(IF (j + k) % 2 = 0 THEN det(minor(A, k, j))
                         ELSE r_neg(det(minor(A, k, j))),
                         det(A))] \o <<>>] \o <<>>)

trace(A) == r_sum([j \in DOMAIN A |-> A[j][j]] \o <<>>)

\* np.linalg.lstsq(C, Y, rcond=None)[0] for a matrix C whose columns are
\* all multiples of one vector (every matrix of at most two columns with a
\* singular C.T @ C): the least-squares solution of least norm
linalg_lstsq(C, Y) ==
    IF r_sign(trace(gram(C, C))) = 0 THEN [j \in 1 .. num_columns(C) |-> r_of_int(0)] \o <<>>
    ELSE [j \in 1 .. num_columns(C) |-> r_div(gram_vec(C, Y)[j], trace(gram(C, C)))] \o <<>>

(***************************************************************************)
(* portfolio/portfolio_optimiser.py and cashflow_model/builders.py:        *)
(* solve_portfolio_weights                                                 *)
(***************************************************************************)
\* the weights that are all zero, whatever the inputs
solve_portfolio_weights_zero(C_matrix, Y_vector) ==
    [j \in 1 .. num_columns(C_matrix) |-> r_of_int(0)] \o <<>>

\* the weights np.linalg.solve found, or those of the lstsq fallback
weights_or_fallback(C_matrix, Y_vector, solved) ==
    IF solved.err = "none" THEN solved.val
    ELSE linalg_lstsq(C_matrix, Y_vector)

\* portfolio_optimiser.solve_portfolio_weights
solve_portfolio_weights(C_matrix, Y_vector) ==
    weights_or_fallback(C_matrix, Y_vector,
                        linalg_solve(gram(C_matrix, C_matrix), gram_vec(C_matrix, Y_vector)))

\* CTc_inv @ CTy, or the LinAlgError of the inverse
inverse_times(CTc_inv, CTy) ==
    IF CTc_inv.err = "none" THEN Ok(matvec(CTc_inv.val, CTy)) ELSE CTc_inv

\* cashflow_model.builders.solve_portfolio_weights
solve_portfolio_weights_inv(C_matrix, Y_vector) ==
    weights_or_fallback(C_matrix, Y_vector,
                        inverse_times(linalg_inv(gram(C_matrix, C_matrix)),
                                      gram_vec(C_matrix, Y_vector)))

(***************************************************************************)
(* pandas data frames indexed by date: the dates in ascending order, the   *)
(* column names, and one row of values for each date.                      *)
(***************************************************************************)
DataFrame(index, columns, values) ==
    [index |-> index, columns |-> columns, values |-> values]

dates_of(frame) == {frame.index[i] : i \in DOMAIN frame.index}

\* frame.loc[d]
row_at(frame, d) == frame.values[CHOOSE i \in DOMAIN frame.index : frame.index[i] = d]

zero_row(columns) == [j \in DOMAIN columns |-> r_of_int(0)] \o <<>>

\* frame.reindex(all_dates, fill_value=0.0)
reindex(frame, all_dates) ==
    DataFrame(all_dates, frame.columns,
              [i \in DOMAIN all_dates |->
                  IF all_dates[i] \in dates_of(frame) THEN row_at(frame, all_dates[i])
                  ELSE zero_row(frame.columns)] \o <<>>)

\* pd.concat([a, b], axis=1) of two frames with the same index
concat_columns(a, b) ==
    DataFrame(a.index, a.columns \o b.columns,
              [i \in DOMAIN a.index |-> a.values[i] \o b.values[i]] \o <<>>)

\* frame.iloc[positions], positions in ascending order
take_rows(frame, positions) ==
    DataFrame([n \in DOMAIN positions |-> frame.index[positions[n]]] \o <<>>,
              frame.columns,
              [n \in DOMAIN positions |-> frame.values[positions[n]]] \o <<>>)

\* every row, whatever it holds
all_rows(frame) == DOMAIN frame.index

\* (frame != 0).any(axis=1)
nonzero_rows(frame) ==
    {i \in DOMAIN frame.index : \E j \in DOMAIN frame.columns : r_sign(frame.values[i][j]) # 0}

\* frame.cumsum(axis=0): a column up to row i
RECURSIVE cumsum_at(_, _, _)
cumsum_at(frame, i, j) ==
    IF i = 0 THEN r_of_int(0)
    ELSE r_add(cumsum_at(frame, i - 1, j), frame.values[i][j])

\* calculate_running_totals
calculate_running_totals(cashflow_matrix) ==
    DataFrame(cashflow_matrix.index, cashflow_matrix.columns,
              [i \in DOMAIN cashflow_matrix.index |->
                  [j \in DOMAIN cashflow_matrix.columns |-> cumsum_at(cashflow_matrix, i, j)]
                  \o <<>>] \o <<>>)

(***************************************************************************)
(* portfolio/portfolio_builders.py and cashflow_model/builders.py:         *)
(* generate_target_cashflows, create_unified_timeline                      *)
(***************************************************************************)
\* the loop "while current_date <= target_end_date", delta a number of months
RECURSIVE target_dates(_, _, _)
target_dates(current_date, target_end_date, months) ==
    IF current_date > target_end_date THEN <<>>
    ELSE <<current_date>>
         \o target_dates(add_months(current_date, months), target_end_date, months)

target_frame(cashflow_dates, amount) ==
    DataFrame(cashflow_dates, <<"target">>,
              [i \in DOMAIN cashflow_dates |-> <<amount>>] \o <<>>)

generate_target_cashflows(target_start_date, target_end_date, frequency, amount) ==
    IF frequency = "monthly"
    THEN Ok(target_frame(target_dates(target_start_date, target_end_date, 1), amount))
    ELSE IF frequency = "annually"
    THEN Ok(target_frame(target_dates(target_start_date, target_end_date, 12), amount))
    ELSE Raise("ValueError")

\* a filter that keeps the settlement date itself
dates_from(all_dates, settlement_date) ==
    IF settlement_date = NoDate THEN all_dates
    ELSE {d \in all_dates : d >= settlement_date}

\* all_dates[all_dates > settlement_date], when a settlement date is given
dates_after(all_dates, settlement_date) ==
    IF settlement_date = NoDate THEN all_dates
    ELSE {d \in all_dates : d > settlement_date}

\* the rows that stay: all of them, or those with a value that is not zero
rows_kept(unified_cf, drop_zeros) ==
    IF drop_zeros THEN nonzero_rows(unified_cf) ELSE all_rows(unified_cf)

\* the frames reindexed on all_dates and put side by side, zero rows dropped
unified_on(cf_target, cf_mat, all_dates, drop_zeros) ==
    IF all_dates = <<>> THEN Raise("ValueError")
    ELSE the({Ok(take_rows(unified_cf, sorted(rows_kept(unified_cf, drop_zeros)))) :
                 unified_cf \in {concat_columns(reindex(cf_target, all_dates),
                                                reindex(cf_mat, all_dates))}})

create_unified_timeline(cf_target, cf_mat, settlement_date, drop_zeros) ==
    unified_on(cf_target, cf_mat,
               sorted(dates_after(dates_of(cf_target) \cup dates_of(cf_mat), settlement_date)),
               drop_zeros)

(***************************************************************************)
(* The fit diagnostics of build_portfolio.                                  *)
(***************************************************************************)
vec_sub(u, v) == [i \in DOMAIN u |-> r_sub(u[i], v[i])] \o <<>>

sum_of_squares(v) == dot(v, v)

\* np.mean(v)
mean(v) == r_div(r_sum(v), r_of_int(Len(v)))

residuals_of(C_matrix, Y_running, weights) == vec_sub(Y_running, matvec(C_matrix, weights))

\* float(np.mean(residuals**2))
mse_of(residuals) == mean([i \in DOMAIN residuals |-> r_mul(residuals[i], residuals[i])] \o <<>>)

NaN == [kind |-> "nan"]

MinusInf == [kind |-> "-inf"]

\* a float division x / y of numpy scalars, x >= 0 and y >= 0
np_divide(x, y) ==
    IF r_sign(y) # 0 THEN r_div(x, y)
    ELSE IF r_sign(x) = 0 THEN NaN
    ELSE [kind |-> "inf"]

\* 1 - x for a quotient x of np_divide
one_minus(x) ==
    IF x = NaN THEN NaN
    ELSE IF x = [kind |-> "inf"] THEN MinusInf
    ELSE r_sub(r_of_int(1), x)

\* float(1 - np.sum(residuals**2) / np.sum((Y_running - np.mean(Y_running))**2))
r_squared_of(residuals, Y_running) ==
    one_minus(np_divide(sum_of_squares(residuals),
                        sum_of_squares([i \in DOMAIN Y_running |->
                                           r_sub(Y_running[i], mean(Y_running))] \o <<>>)))

(***************************************************************************)
(* models/instrument.py, cashflow_model/builders.py and                    *)
(* portfolio/portfolio_builders.py: the cashflows of the bonds of a        *)
(* database, long and as a matrix of dates by bonds.                       *)
(***************************************************************************)
\* the fields of an Instrument the builders read
Instrument(isin, instrument_type, first_issue_date, maturity_date, coupon_rate, first_coupon_length) ==
    [isin                |-> isin,
     instrument_type     |-> instrument_type,
     first_issue_date    |-> first_issue_date,
     maturity_date       |-> maturity_date,
     coupon_rate         |-> coupon_rate,
     first_coupon_length |-> first_coupon_length]

\* (inst.instrument_type or "").strip().lower()
strip_lower(s) ==
    IF s \in {"bond", "Bond", "BOND", " bond", "Bond "} THEN "bond"
    ELSE IF s \in {"swap", "Swap"} THEN "swap"
    ELSE s

\* a missing optional number (None)
NoNumber == <<0, 0>>

\* the schedule of the model, when the model could be built
schedule_of_built(built) ==
    IF built.err = "none" THEN generate_cashflow_schedule(built.val) ELSE built

cashflows_from_instrument(inst, cal, frequency, notional, convention, first_coupon_date) ==
    IF strip_lower(inst.instrument_type) # "bond" THEN Raise("ValueError")
    ELSE IF inst.first_issue_date = NoDate \/ inst.maturity_date = NoDate
            \/ inst.coupon_rate = NoNumber
    THEN Raise("ValueError")
    ELSE schedule_of_built(CashflowModel([issue_date          |-> inst.first_issue_date,
                                          maturity_date       |-> inst.maturity_date,
                                          coupon_rate         |-> inst.coupon_rate,
                                          frequency           |-> frequency,
                                          rate_unit           |-> "auto",
                                          notional            |-> notional,
                                          calendar            |-> cal,
                                          convention          |-> convention,
                                          first_coupon_length |-> inst.first_coupon_length,
                                          first_coupon_date   |-> first_coupon_date,
                                          last_coupon_date    |-> NoDate]))

\* float(r.coupon_amount + r.principal)
amount_of(r) ==
    IF r.coupon_amount.hi = 0 /\ r.coupon_amount.lo = 0
    THEN r_of_q(q_add(q_int(r.coupon_amount.whole), r.principal))
    ELSE r_add(r_of_dec(r.coupon_amount), r_of_q(r.principal))

\* the rows cashflows_df appends for one instrument
long_rows(inst, schedule) ==
    [i \in DOMAIN schedule |->
        [instrument_id |-> inst.isin,
         maturity_date |-> inst.maturity_date,
         cashflow_date |-> schedule[i].adjusted_date,
         amount        |-> amount_of(schedule[i])]] \o <<>>

\* the rows of the instruments after the first, behind those of the first
rows_then(first_rows, rest) ==
    IF first_rows.err # "none" THEN first_rows
    ELSE IF rest.err # "none" THEN rest
    ELSE Ok(first_rows.val \o rest.val)

\* list.sort(key=...) and sort_values(kind="mergesort"): the positions of
\* the keys, each a pair of numbers, in the order of a stable sort
stable_order(keys) ==
    [n \in DOMAIN keys |->
        CHOOSE i \in DOMAIN keys :
           Cardinality({j \in DOMAIN keys :
                           \/ keys[j][1] < keys[i][1]
                           \/ keys[j][1] = keys[i][1] /\ keys[j][2] < keys[i][2]
                           \/ keys[j] = keys[i] /\ j < i}) = n - 1] \o <<>>

\* the elements of s at the positions, in their order
reordered(s, positions) == [n \in DOMAIN positions |-> s[positions[n]]] \o <<>>

\* the loop of cashflows_df over the instruments
RECURSIVE appended_rows(_, _)
appended_rows(instruments, cal) ==
    IF instruments = <<>> THEN Ok(<<>>)
    ELSE IF strip_lower(Head(instruments).instrument_type) # "bond"
    THEN appended_rows(Tail(instruments), cal)
    ELSE the({IF schedule.err # "none" THEN schedule
              ELSE rows_then(Ok(long_rows(Head(instruments), schedule.val)),
                             appended_rows(Tail(instruments), cal)) :
                 schedule \in {cashflows_from_instrument(Head(instruments), cal, 2,
                                                         q_int(100), "mf", NoDate)}})

by_cashflow_date(rows) ==
    [i \in DOMAIN rows |-> <<rows[i].cashflow_date, rows[i].maturity_date>>] \o <<>>

\* the frame built from the rows, sorted when it is not empty
sorted_long(rows) ==
    IF rows.err # "none" THEN rows ELSE Ok(reordered(rows.val, stable_order(by_cashflow_date(rows.val))))

cashflows_df(instruments, cal) == sorted_long(appended_rows(instruments, cal))

\* the amounts of one instrument on one date, summed
RECURSIVE summed_amount(_, _, _)
summed_amount(df_long, d, id) ==
    IF df_long = <<>> THEN r_of_int(0)
    ELSE IF Head(df_long).cashflow_date = d /\ Head(df_long).instrument_id = id
    THEN r_add(Head(df_long).amount, summed_amount(Tail(df_long), d, id))
    ELSE summed_amount(Tail(df_long), d, id)

\* df_long.drop_duplicates("instrument_id"): the first row of each instrument
first_rows_of(df_long) ==
    SelectSeq([i \in DOMAIN df_long |->
                  [row |-> df_long[i],
                   first |-> \A j \in 1 .. i - 1 :
                                df_long[j].instrument_id # df_long[i].instrument_id]] \o <<>>,
              LAMBDA x : x.first)

by_maturity_of_row(rows) == [i \in DOMAIN rows |-> <<rows[i].row.maturity_date, 0>>] \o <<>>

\* the instrument ids in the order of their maturities
maturity_order(df_long) ==
    [n \in DOMAIN first_rows_of(df_long) |->
        reordered(first_rows_of(df_long),
                  stable_order(by_maturity_of_row(first_rows_of(df_long))))[n].row.instrument_id]
    \o <<>>

\* the pivot of the amounts on the given dates and columns
pivot(df_long, dates, ids) ==
    DataFrame(dates, ids,
              [i \in DOMAIN dates |->
                  [j \in DOMAIN ids |-> summed_amount(df_long, dates[i], ids[j])] \o <<>>]
              \o <<>>)

cashflow_matrix(df_long) ==
    IF df_long = <<>> THEN DataFrame(<<>>, <<>>, <<>>)
    ELSE pivot(df_long,
               sorted({df_long[i].cashflow_date : i \in DOMAIN df_long}),
               maturity_order(df_long))

by_maturity(bonds) == [i \in DOMAIN bonds |-> <<bonds[i].maturity_date, 0>>] \o <<>>

\* the list comprehension of filter_bonds_by_maturity
maturing_within(bonds, select_start_date, select_end_date) ==
    SelectSeq(bonds, LAMBDA bond : /\ bond.maturity_date # NoDate
                                   /\ select_start_date <= bond.maturity_date
                                   /\ bond.maturity_date <= select_end_date)

\* filtered.sort(key=maturity)
sorted_by_maturity(filtered) == reordered(filtered, stable_order(by_maturity(filtered)))

filter_bonds_by_maturity(bonds, select_start_date, select_end_date) ==
    sorted_by_maturity(maturing_within(bonds, select_start_date, select_end_date))

(***************************************************************************)
(* utils/settlement.py: get_settlement_date() of an environment, which is  *)
(* the variable SETTLEMENT_DATE, parsed, and the clock.                    *)
(***************************************************************************)
get_settlement_date(env) ==
    IF env.SETTLEMENT_DATE # NoDate THEN env.SETTLEMENT_DATE ELSE env.today + 1

(***************************************************************************)
(* portfolio/portfolio_builders.py: build_portfolio, the weights being     *)
(* nominals scaled to the budget.  The database is the instruments         *)
(* list_instruments returns, the holidays of the country and the latest    *)
(* dirty price of each instrument.                                         *)
(***************************************************************************)
\* the prices of the loop over filtered_bonds, None when one is missing
latest_prices(db, filtered_bonds) ==
    [i \in DOMAIN filtered_bonds |-> db.dirty_price[filtered_bonds[i].isin]] \o <<>>

\* steps 6 to 8: running totals, the split into Y and C, the weights
fit_of(filtered_bonds, prices, unified_cf, unified_running) ==
    the({Ok([filtered_bonds         |-> filtered_bonds,
             prices                 |-> prices,
             unified_cashflows      |-> unified_cf,
             unified_running_totals |-> unified_running,
             Y_running              |-> Y_running,
             C_matrix               |-> C_matrix,
             nominal_weights        |-> solve_portfolio_weights(C_matrix, Y_running)]) :
            Y_running \in {column(unified_running.values, 1)},
            C_matrix \in {[i \in DOMAIN unified_running.values |->
                              Tail(unified_running.values[i])] \o <<>>}})

\* step 5: the unified timeline after the settlement date
fit_on_timeline(filtered_bonds, prices, unified) ==
    IF unified.err # "none" THEN unified
    ELSE fit_of(filtered_bonds, prices, unified.val, calculate_running_totals(unified.val))

\* steps 3 and 4: the bond cashflows and the target of 100 a period
fit_from_cashflows(filtered_bonds, prices, cf_long, cf_target, settlement_date) ==
    IF cf_long.err # "none" THEN cf_long
    ELSE IF cf_target.err # "none" THEN cf_target
    ELSE fit_on_timeline(filtered_bonds, prices,
                         create_unified_timeline(cf_target.val, cashflow_matrix(cf_long.val),
                                                 settlement_date, TRUE))

\* steps 2b to 8 for the bonds that passed the filter
fit_of_filtered(db, filtered_bonds, select_start_date, select_end_date, frequency) ==
    IF \E i \in DOMAIN filtered_bonds : db.dirty_price[filtered_bonds[i].isin] = NoNumber
    THEN Raise("ValueError: No dirty price found")
    ELSE fit_from_cashflows(filtered_bonds,
                            [i \in DOMAIN filtered_bonds |->
                                r_of_q(db.dirty_price[filtered_bonds[i].isin])] \o <<>>,
                            cashflows_df(filtered_bonds,
                                         BusinessDayCalendar(db.holidays, {5, 6})),
                            generate_target_cashflows(select_start_date, select_end_date,
                                                      frequency, r_of_int(100)),
                            get_settlement_date(db.env))

\* steps 1 to 8: the nominal weights that replicate 100 a period
nominal_fit(db, select_start_date, select_end_date, settlement_date, frequency) ==
    IF db.bonds = <<>> THEN Raise("ValueError: No bonds found in database")
    ELSE IF filter_bonds_by_maturity(db.bonds, settlement_date, select_end_date) = <<>>
    THEN Raise("ValueError: No bonds found matching maturity criteria")
    ELSE fit_of_filtered(db, filter_bonds_by_maturity(db.bonds, settlement_date,
                                                      select_end_date),
                         select_start_date, select_end_date, frequency)

\* np.sum(nominal_weights * prices)
total_cost_of(nominal_weights, prices) == dot(nominal_weights, prices)

\* a scale factor that takes the budget to be the 100 of the target
scale_factor_of_hundred(target_amount, total_cost) == r_div(r_of_int(100), total_cost)

\* scale_factor = target_amount / total_cost
scale_factor(target_amount, total_cost) == r_div(target_amount, total_cost)

\* nominal_weights * scale_factor
scaled_by(nominal_weights, factor) ==
    [j \in DOMAIN nominal_weights |-> r_mul(nominal_weights[j], factor)] \o <<>>

\* the returned dict: the bond weights with the value invested in each
\* bond, and the diagnostics of the scaled weights
portfolio_of(fit, scaled_weights) ==
    the({Ok([bond_weights |->
                [j \in DOMAIN fit.filtered_bonds |->
                    [isin           |-> fit.filtered_bonds[j].isin,
                     maturity       |-> fit.filtered_bonds[j].maturity_date,
                     nominal_weight |-> fit.nominal_weights[j],
                     scaled_weight  |-> scaled_weights[j],
                     price          |-> fit.prices[j],
                     value_invested |-> r_mul(scaled_weights[j], fit.prices[j])]] \o <<>>,
             unified_timeline  |-> fit.unified_cashflows.index,
             predicted_running |-> matvec(fit.C_matrix, scaled_weights),
             residuals         |-> residuals,
             mse               |-> mse_of(residuals),
             r_squared         |-> r_squared_of(residuals, fit.Y_running),
             num_bonds         |-> Len(fit.filtered_bonds)]) :
            residuals \in {residuals_of(fit.C_matrix, fit.Y_running, scaled_weights)}})

\* step 9: the weights scaled to the budget
scaled_to_budget(fit, target_amount, total_cost) ==
    IF r_sign(total_cost) <= 0 THEN Raise("ValueError: Invalid portfolio")
    ELSE portfolio_of(fit, scaled_by(fit.nominal_weights,
                                     scale_factor(target_amount, total_cost)))

\* the portfolio of a fit, when there is one
portfolio_of_fit(fit, target_amount) ==
    IF fit.err # "none" THEN fit
    ELSE scaled_to_budget(fit.val, target_amount,
                          total_cost_of(fit.val.nominal_weights, fit.val.prices))

build_portfolio(db, select_start_date, select_end_date, settlement_date, target_amount, frequency) ==
    portfolio_of_fit(nominal_fit(db, select_start_date, select_end_date, settlement_date,
                                 frequency),
                     target_amount)

(***************************************************************************)
(* portfolio/builders.py: build_portfolio, the weights being those of      *)
(* cashflow_model.builders.solve_portfolio_weights as they are.            *)
(***************************************************************************)
\* steps 7 to 9 and the returned dict
weights_portfolio(filtered_bonds, unified_cf, unified_running, Y_running, C_matrix, weights) ==
    the({Ok([bond_weights |->
                [j \in DOMAIN filtered_bonds |->
                    [isin     |-> filtered_bonds[j].isin,
                     maturity |-> filtered_bonds[j].maturity_date,
                     weight   |-> weights[j]]] \o <<>>,
             unified_timeline  |-> unified_cf.index,
             predicted_running |-> matvec(C_matrix, weights),
             residuals         |-> residuals,
             mse               |-> mse_of(residuals),
             r_squared         |-> r_squared_of(residuals, Y_running),
             num_bonds         |-> Len(filtered_bonds)]) :
            residuals \in {residuals_of(C_matrix, Y_running, weights)}})

\* steps 6 to 8: running totals, the split into Y and C, the weights
weights_on_running(filtered_bonds, unified_cf, unified_running) ==
    the({weights_portfolio(filtered_bonds, unified_cf, unified_running, Y_running, C_matrix,
                           solve_portfolio_weights_inv(C_matrix, Y_running)) :
            Y_running \in {column(unified_running.values, 1)},
            C_matrix \in {[i \in DOMAIN unified_running.values |->
                              Tail(unified_running.values[i])] \o <<>>}})

\* step 5: the unified timeline after the settlement date
weights_on_timeline(filtered_bonds, unified) ==
    IF unified.err # "none" THEN unified
    ELSE weights_on_running(filtered_bonds, unified.val, calculate_running_totals(unified.val))

\* steps 3 and 4: the bond cashflows and the target cashflows
weights_from_cashflows(filtered_bonds, cf_long, cf_target, settlement_date) ==
    IF cf_long.err # "none" THEN cf_long
    ELSE IF cf_target.err # "none" THEN cf_target
    ELSE weights_on_timeline(filtered_bonds,
                             create_unified_timeline(cf_target.val,
                                                     cashflow_matrix(cf_long.val),
                                                     settlement_date, TRUE))

\* steps 3 to 9 for the bonds that passed the filter
weights_of_filtered(db, filtered_bonds, select_start_date, select_end_date, settlement_date, target_amount, frequency) ==
    IF filtered_bonds = <<>>
    THEN Raise("ValueError: No bonds found matching maturity criteria")
    ELSE weights_from_cashflows(filtered_bonds,
                                cashflows_df(filtered_bonds,
                                             BusinessDayCalendar(db.holidays, {5, 6})),
                                generate_target_cashflows(select_start_date, select_end_date,
                                                          frequency, target_amount),
                                settlement_date)

build_portfolio_weights(db, select_start_date, select_end_date, settlement_date, target_amount, frequency) ==
    weights_of_filtered(db,
                        filter_bonds_by_maturity(db.bonds, settlement_date, select_end_date),
                        select_start_date, select_end_date, settlement_date, target_amount,
                        frequency)

(***************************************************************************)
(* yield_from_clean_price run pass by pass: the call holds the locals of   *)
(* the method (a, b, fa, fb, expand; lo, hi, flo and the passes made;      *)
(* the anchors, the place in them and last_y, last_f) and its position.    *)
(***************************************************************************)
\* the values max_iter is given
SolverIterations == {0, 2, DefaultMaxIter}

\* the locals not yet assigned
NoLocals ==
    [a |-> NoYield, b |-> NoYield, fa |-> Pending, fb |-> Pending, expand |-> 0,
     bisecting |-> Pending, passes |-> 0, bisections |-> 0,
     anchors |-> <<>>, i |-> 0, last |-> Pending]

\* what f(y) closes over during the call
context_of_run(self, c) ==
    solver_context(self, c.settlement, c.ex_div_business_days, c.target_dirty, c.tol,
                   c.max_iter)

\* the call has returned or raised with result
finished(c, result) == [c EXCEPT !.pc = "done", !.result = result]

\* while fa * fb > 0 and expand < 12, without the bound on expand
same_sign_ends(fa, fb, expand) == r_sign(fa) * r_sign(fb) > 0

\* while fa * fb > 0 and expand < 12
may_expand(fa, fb, expand) == r_sign(fa) * r_sign(fb) > 0 /\ expand < 12

\* lo, hi, flo, fhi = ...; the loop "for _ in range(max_iter)" is entered
bisection_entered(c, lo, hi, flo) ==
    [c EXCEPT !.pc = "bisect",
              !.bisecting = [lo |-> lo, hi |-> hi, flo |-> flo, out |-> Pending],
              !.passes = 0,
              !.bisections = c.bisections + 1]

\* anchors = sorted({...}); last_y = None; last_f = None
scan_entered(self, c) ==
    [c EXCEPT !.pc = "scan",
              !.anchors = anchors_of(self, min_yield(self), c.y0),
              !.i = 1,
              !.last = Pending]

\* target_dirty = clean_price + self.accrued_interest(...); min_y; the
\* bracket clipped, or the anchors built
entered(self, c, ai) ==
    IF c.bracket # NoBracket
    THEN [c EXCEPT !.pc = "ends",
                   !.target_dirty = r_add(c.clean_price, r_of_q(ai.val)),
                   !.a = z_max(min_yield(self), c.bracket[1]),
                   !.b = z_max(z_add(min_yield(self), yu_nano(1)), c.bracket[2])]
    ELSE scan_entered(self, [c EXCEPT !.target_dirty = r_add(c.clean_price, r_of_q(ai.val))])

\* the loop is left: return float(a), return float(b), bisect, or fall
\* through to the grid scan
after_expansion(self, c) ==
    IF r_sign(c.fa.val) = 0 THEN [next |-> finished(c, Ok(c.a)), out |-> Ok(c.a)]
    ELSE IF r_sign(c.fb.val) = 0 THEN [next |-> finished(c, Ok(c.b)), out |-> Ok(c.b)]
    ELSE IF r_sign(c.fa.val) * r_sign(c.fb.val) < 0
    THEN [next |-> bisection_entered(c, c.a, c.b, c.fa.val), out |-> Pending]
    ELSE [next |-> scan_entered(self, c), out |-> Pending]

\* one pass of "for y in anchors" once fy = f(y) is known
scan_pass(c, y, fy) ==
    IF fy.err # "none" THEN [next |-> [c EXCEPT !.i = c.i + 1], out |-> Pending]
    ELSE IF r_sign(fy.val) = 0 THEN [next |-> finished(c, Ok(y)), out |-> Ok(y)]
    ELSE IF c.last # Pending /\ r_sign(fy.val) * r_sign(c.last.fy) < 0
    THEN [next |-> bisection_entered(c, c.last.y, y, c.last.fy), out |-> Pending]
    ELSE [next |-> [c EXCEPT !.i = c.i + 1, !.last = [y |-> y, fy |-> fy.val]],
          out |-> Pending]

(***************************************************************************)
(* database/schema.py and database/insert.py: the instrument_data table of *)
(* an sqlite3 connection, and insert_instrument_data.                      *)
(***************************************************************************)
\* None, and the NULL it is stored as
Null == <<"None">>

\* a str, and the TEXT it is stored as
str(s) == <<"str", s>>

\* a connection to a database without tables
NoTables == [kind |-> "sqlite3.Connection", instrument_data |-> [kind |-> "none"]]

\* CREATE TABLE instrument_data (...)
instrument_data_table ==
    [kind        |-> "table",
     columns     |-> {"instrument_id", "data_date", "data_type", "value", "source",
                      "resolution"},
     not_null    |-> {"instrument_id", "data_date", "data_type"},
     primary_key |-> {"instrument_id", "data_date", "data_type", "source", "resolution"},
     rows        |-> {}]

\* create_instrument_data_table: the table is created unless it exists;
\* the answer is whether it existed
create_instrument_data_table(conn) ==
    IF conn.instrument_data.kind = "table" THEN [conn |-> conn, exists |-> TRUE]
    ELSE [conn |-> [conn EXCEPT !.instrument_data = instrument_data_table],
          exists |-> FALSE]

\* datetime.date and datetime.datetime values
py_date(d) == <<"date", d>>

py_datetime(d, hour) == <<"datetime", d, hour>>

\* _iso(x): None, or the year, month and day of the date or of the date of
\* the datetime
_iso(x) == IF x = Null THEN Null ELSE ymd(x[2])

\* json.dumps(attrs or {}, separators=(",", ":"))
json_dumps(attrs) == IF attrs = Null \/ attrs = <<>> THEN str("{}") ELSE attrs

\* the dict fields of insert_instrument_data
fields_of(instrument_data) ==
    [instrument_id |-> instrument_data.instrument_id,
     data_date     |-> _iso(instrument_data.data_date),
     data_type     |-> instrument_data.data_type,
     value         |-> instrument_data.value,
     source        |-> instrument_data.source,
     resolution    |-> instrument_data.resolution,
     unit          |-> instrument_data.unit,
     attrs         |-> json_dumps(instrument_data.attrs)]

\* a stored row with the key of the new one; a NULL equals no value
same_key(table, row, fields) ==
    \A k \in table.primary_key : row[k] # Null /\ row[k] = fields[k]

\* INSERT OR IGNORE INTO instrument_data (cols) VALUES (...): the error of
\* the statement, or cur.rowcount and the rows of the table after it
insert_or_ignore(table, fields) ==
    IF table.kind # "table" THEN [err |-> "OperationalError", rowcount |-> -1, rows |-> {}]
    ELSE IF \E c \in DOMAIN fields : c \notin table.columns
    THEN [err |-> "OperationalError", rowcount |-> -1, rows |-> table.rows]
    ELSE IF \E c \in table.not_null : fields[c] = Null
    THEN [err |-> "none", rowcount |-> 0, rows |-> table.rows]
    ELSE IF \E row \in table.rows : same_key(table, row, fields)
    THEN [err |-> "none", rowcount |-> 0, rows |-> table.rows]
    ELSE [err |-> "none", rowcount |-> 1,
          rows |-> table.rows \cup {[c \in table.columns |-> fields[c]]}]

\* return "inserted" if cur.rowcount == 1 else "skipped"
status_of(cur) ==
    IF cur.err # "none" THEN Raise(cur.err)
    ELSE IF cur.rowcount = 1 THEN Ok("inserted") ELSE Ok("skipped")

\* insert_instrument_data(conn, instrument_data): the status returned or
\* the error raised, and the connection afterwards
insert_instrument_data(conn, instrument_data) ==
    the({[status |-> status_of(cur),
          conn   |-> IF cur.err = "none"
                     THEN [conn EXCEPT !.instrument_data.rows = cur.rows] ELSE conn] :
            cur \in {insert_or_ignore(conn.instrument_data, fields_of(instrument_data))}})

(***************************************************************************)
(* Calendars and dates the calendar operations are exercised on.           *)
(***************************************************************************)
\* the longest run of consecutive holidays in a calendar
MaxClosure == 26

\* days on either side of 2021-02-01 the adjusted date is drawn from
WindowBefore == 7

WindowAfter == 33

ClosureStarts == {date(2021, 1, 29), date(2021, 2, 1), date(2021, 2, 15)}

Closures ==
    {{s + i : i \in 0 .. (len - 1)} : s \in ClosureStarts, len \in 0 .. MaxClosure}

Weekends == {{5, 6}, {4, 5}}

Calendars == {BusinessDayCalendar(h, w) : h \in Closures, w \in Weekends}

AdjustDates == (date(2021, 2, 1) - WindowBefore) .. (date(2021, 2, 1) + WindowAfter)

Conventions == {"f", "p", "mf", "x"}

\* the most business days workday is asked to move, either way
MaxWorkdays == 3

WorkdayStarts == AdjustDates \cup {date(2025, 1, 1)}

\* days after 2021-01-28 the two ends of a count are drawn from
BetweenWindow == 9

BetweenDates == date(2021, 1, 28) .. (date(2021, 1, 28) + BetweenWindow)

(***************************************************************************)
(* The calendar, called by a client.                                       *)
(***************************************************************************)
InitCalendar ==
    /\ calendar \in Calendars
    /\ model = NoModel
    /\ call = NoCall
    /\ ret = Ok(0)

\* calendar.adjust(d, convention)
Adjust ==
    /\ call.op = "none"
    /\ \E d \in AdjustDates, c \in Conventions :
          /\ call' = [op |-> "adjust", d |-> d, convention |-> c]
          /\ ret' = adjust(calendar, d, c)
    /\ UNCHANGED <<calendar, model>>

\* calendar.adjust(calendar.adjust(d, convention), convention)
AdjustAgain ==
    /\ call.op = "adjust"
    /\ ret.err = "none"
    /\ call' = [op |-> "adjust_again", d |-> ret.val,
                convention |-> call.convention, original |-> call.d]
    /\ ret' = adjust(calendar, ret.val, call.convention)
    /\ UNCHANGED <<calendar, model>>

\* calendar.workday(start, days), or its alias shift_business_days
Workday ==
    /\ call.op = "none"
    /\ \E start \in WorkdayStarts, days \in (-MaxWorkdays) .. MaxWorkdays,
          alias \in BOOLEAN :
          /\ call' = [op |-> "workday", start |-> start, days |-> days,
                      alias |-> alias]
          /\ ret' = Ok(IF alias THEN shift_business_days(calendar, start, days)
                       ELSE workday(calendar, start, days))
    /\ UNCHANGED <<calendar, model>>

\* calendar.business_days_between(a, b, inclusive=..., signed=...)
BusinessDaysBetween ==
    /\ call.op = "none"
    /\ \E a \in BetweenDates, b \in BetweenDates, inclusive \in BOOLEAN,
          signed \in BOOLEAN :
          /\ call' = [op |-> "business_days_between", a |-> a, b |-> b,
                      inclusive |-> inclusive, signed |-> signed]
          /\ ret' = Ok(business_days_between(calendar, a, b, inclusive, signed))
    /\ UNCHANGED <<calendar, model>>

NextCalendar == Adjust \/ AdjustAgain \/ Workday \/ BusinessDaysBetween

SpecCalendar == InitCalendar /\ [][NextCalendar]_vars

(***************************************************************************)
(* Bonds the schedule builder is exercised on.                             *)
(***************************************************************************)
\* the longest term, in months, of the bonds drawn besides the ten-year gilt
MaxTermMonths == 12

IssueDates == {date(2020, 1, 1), date(2020, 8, 31)}

Maturities(issue) == {add_months(issue, j) : j \in 0 .. MaxTermMonths}

Frequencies == {1, 2, 4, 12}

CouponRates == {q_int(5)}

FirstCouponLengths == {"", "Short First", "Long First", "Long First "}

FirstCouponDates(issue) == {NoDate, add_months(issue, 7)}

LastCouponDates(mat) == {NoDate, mat - 45}

\* Easter 2020 and the bank holidays around the coupon dates of the bonds
ScheduleHolidays ==
    {date(2020, 4, 10), date(2020, 4, 13), date(2020, 8, 31), date(2021, 1, 1)}

ScheduleCalendars == {NoCalendar, BusinessDayCalendar(ScheduleHolidays, {5, 6})}

ScheduleArgs(i, m, c, fq, k, h, fc, lc) ==
    [issue_date          |-> i,
     maturity_date       |-> m,
     coupon_rate         |-> c,
     frequency           |-> fq,
     rate_unit           |-> "percent",
     notional            |-> q_int(100),
     calendar            |-> k,
     convention          |-> "mf",
     first_coupon_length |-> h,
     first_coupon_date   |-> fc,
     last_coupon_date    |-> lc]

\* issue 2020-01-01, maturity 2030-01-01, coupon 5 in percent mode,
\* frequency 2, notional 100
TenYearGilt ==
    ScheduleArgs(date(2020, 1, 1), date(2030, 1, 1), q_int(5), 2, NoCalendar,
                 "", NoDate, NoDate)

(***************************************************************************)
(* The schedule builder, called by a client.                               *)
(***************************************************************************)
InitSchedule ==
    /\ calendar = NoCalendar
    /\ model = NoModel
    /\ call = NoCall
    /\ ret = Ok(0)

\* CashflowModel(issue_date, maturity_date, coupon_rate, frequency, ...)
NewCashflowModel(a) ==
    /\ model = NoModel
    /\ call.op = "none"
    /\ LET r == CashflowModel(a)
       IN  /\ model' = IF r.err = "none" THEN r.val ELSE NoModel
           /\ ret' = IF r.err = "none" THEN Ok(0) ELSE r
    /\ call' = [op |-> "CashflowModel"]
    /\ UNCHANGED calendar

\* model.generate_cashflow_schedule()
GenerateCashflowSchedule ==
    /\ model # NoModel
    /\ call.op = "CashflowModel"
    /\ call' = [op |-> "generate_cashflow_schedule"]
    /\ ret' = generate_cashflow_schedule(model)
    /\ UNCHANGED <<calendar, model>>

NewScheduleModel ==
    \/ NewCashflowModel(TenYearGilt)
    \/ \E i \in IssueDates, c \in CouponRates, fq \in Frequencies,
       k \in ScheduleCalendars, h \in FirstCouponLengths :
          \E m \in Maturities(i), fc \in FirstCouponDates(i) :
            \E lc \in LastCouponDates(m) :
                NewCashflowModel(ScheduleArgs(i, m, c, fq, k, h, fc, lc))

\* the coupon rates a model is asked for: fractions, and the negative
\* floats nearest to zero
RateInputs ==
    {q_int(-5), q_norm(-1, 100), q_int(0), q_norm(1, 8), q_int(5), q_int(20),
     q_norm(201, 10), q_int(25)}
    \cup {subnormal(-1), subnormal(-50), subnormal(-51)}

RateUnits == {"auto", "percent", "decimal"}

\* CashflowModel(..., coupon_rate, frequency, rate_unit=...) of the ten-year
\* gilt, the rate and its unit kept by the client
NewModelOfRate ==
    /\ model = NoModel
    /\ call.op = "none"
    /\ \E rate \in RateInputs, unit \in RateUnits, fq \in Frequencies \cup {3} :
          LET r == CashflowModel([TenYearGilt EXCEPT !.coupon_rate = rate,
                                                    !.rate_unit = unit,
                                                    !.frequency = fq])
          IN  /\ model' = IF r.err = "none" THEN r.val ELSE NoModel
              /\ ret' = IF r.err = "none" THEN Ok(0) ELSE r
              /\ call' = [op |-> "CashflowModel.__init__", coupon_rate |-> rate,
                          rate_unit |-> unit, frequency |-> fq]
    /\ UNCHANGED calendar

NextSchedule == NewScheduleModel \/ GenerateCashflowSchedule \/ NewModelOfRate

SpecSchedule == InitSchedule /\ [][NextSchedule]_vars

(***************************************************************************)
(* Bonds, settlement dates and yields the pricing methods are exercised on. *)
(***************************************************************************)
\* coupon periods in the life of a bond
PricingPeriods == 2

\* days before each coupon date that settlement is drawn from
SettleWindow == 12

PricingIssue == date(2020, 1, 1)

\* days by which the bond with a short first period matures before a whole
\* number of periods
ShortBy == 17

PricingFrequencies == {1, 2}

PricingBonds ==
    {ScheduleArgs(PricingIssue, add_months(PricingIssue, PricingPeriods * (12 \div fq)),
                  q_int(5), fq, k, "", NoDate, NoDate) :
        fq \in PricingFrequencies, k \in ScheduleCalendars}
    \cup {ScheduleArgs(PricingIssue, add_months(PricingIssue, PricingPeriods * 6) - ShortBy,
                       q_int(5), 2, NoCalendar, "", NoDate, NoDate)}

Settlements(self) ==
    {self.issue_date - 1, self.issue_date, self.issue_date + 1, self.issue_date + 60}
    \cup UNION {(add_months(self.maturity_date, -(j * _months_per_period(self)))
                    - SettleWindow)
                .. (add_months(self.maturity_date, -(j * _months_per_period(self))) + 1) :
                j \in 0 .. (PricingPeriods - 1)}

\* an ex-div setting longer than a half-year coupon period, in calendar days
WholePeriodExDiv == 200

\* the ex-div settings a bond is called with; the long one counts calendar
\* days, for the bonds without a calendar
ExDivDays(self) ==
    {0, 3, DefaultExDiv}
    \cup (IF self.calendar.kind = "none" THEN {WholePeriodExDiv} ELSE {})

\* 0, 3% and 3.5%
Yields == {yu_centi(0), yu_centi(3), yu_nano(35000000)}

\* -200% and -300%: 1 + y/frequency is 0 or less at either frequency
LowYields == {yu_centi(-200), yu_centi(-300)}

\* every discount exponent n - s is whole, or the yield is zero
priceable(self, y, settlement, sched) ==
    \/ y = yu_centi(0)
    \/ /\ sched.err = "none"
       /\ elapsed_fraction(self, settlement, sched.val,
                           _find_period_row(sched.val, settlement))[2] = 1

\* clean prices with a yield on the grid, below every price of the grid and
\* above every such price
SolverPrices == {0, 100, 1000000000}

\* the hint y0 and the bracket: neither, a hint of 3%, a bracket around
\* 2.5% and a bracket away from it
SolverOptions ==
    {[y0 |-> NoYield, bracket |-> NoBracket],
     [y0 |-> yu_centi(3), bracket |-> NoBracket],
     [y0 |-> NoYield, bracket |-> <<yu_centi(0), yu_centi(5)>>],
     [y0 |-> NoYield, bracket |-> <<yu_centi(10), yu_centi(20)>>]}

SolverSettlements(self) == {self.issue_date, self.maturity_date - 3, self.maturity_date}

(***************************************************************************)
(* The pricing methods, called by a client.                                *)
(***************************************************************************)
InitPricing ==
    /\ calendar = NoCalendar
    /\ model = NoModel
    /\ call = NoCall
    /\ ret = Ok(0)

NewPricingModel == \E a \in PricingBonds : NewCashflowModel(a)

\* model.accrued_interest(settlement, ex_div_business_days)
AccruedInterest ==
    /\ model # NoModel
    /\ call.op = "CashflowModel"
    /\ \E s \in Settlements(model), e \in ExDivDays(model) :
          /\ call' = [op |-> "accrued_interest", settlement |-> s,
                      ex_div_business_days |-> e, before |-> <<>>]
          /\ ret' = accrued_interest(model, s, e)
    /\ UNCHANGED <<calendar, model>>

\* the same call for the next day, the earlier answer kept by the client
AccruedInterestNextDay ==
    /\ call.op = "accrued_interest"
    /\ ret.err = "none"
    /\ call.settlement + 1 \in Settlements(model)
    /\ call' = [op |-> "accrued_interest", settlement |-> call.settlement + 1,
                ex_div_business_days |-> call.ex_div_business_days,
                before |-> <<ret.val>>]
    /\ ret' = accrued_interest(model, call.settlement + 1, call.ex_div_business_days)
    /\ UNCHANGED <<calendar, model>>

\* model.dirty_price_from_yield(y, settlement, ex_div_business_days)
DirtyPriceFromYield ==
    /\ model # NoModel
    /\ call.op = "CashflowModel"
    /\ \E y \in Yields \cup LowYields, s \in Settlements(model), e \in ExDivDays(model) :
          /\ priceable(model, y, s, generate_cashflow_schedule(model))
          /\ call' = [op |-> "dirty_price_from_yield", y |-> y, settlement |-> s,
                      ex_div_business_days |-> e]
          /\ ret' = dirty_price_from_yield(model, y, s, e)
    /\ UNCHANGED <<calendar, model>>

\* model.clean_price_from_yield(y, settlement, ex_div_business_days)
CleanPriceFromYield ==
    /\ model # NoModel
    /\ call.op = "CashflowModel"
    /\ \E y \in Yields, s \in Settlements(model), e \in ExDivDays(model) :
          /\ priceable(model, y, s, generate_cashflow_schedule(model))
          /\ call' = [op |-> "clean_price_from_yield", y |-> y, settlement |-> s,
                      ex_div_business_days |-> e]
          /\ ret' = clean_price_from_yield(model, y, s, e)
    /\ UNCHANGED <<calendar, model>>

\* model.yield_from_clean_price(clean_price, settlement) on the clean price
\* just returned for the same settlement, everything else left at its default
YieldFromCleanPrice ==
    /\ call.op = "clean_price_from_yield"
    /\ call.ex_div_business_days = DefaultExDiv
    /\ ret.err = "none"
    /\ priceable(model, yu_centi(1), call.settlement, generate_cashflow_schedule(model))
    /\ call' = [op |-> "yield_from_clean_price", clean_price |-> ret.val,
                settlement |-> call.settlement,
                ex_div_business_days |-> DefaultExDiv,
                y0 |-> NoYield, tol |-> DefaultTol, max_iter |-> DefaultMaxIter,
                bracket |-> NoBracket, priced_at |-> call.y]
    /\ ret' = yield_from_clean_price(model, ret.val, call.settlement, DefaultExDiv,
                                     NoYield, DefaultTol, DefaultMaxIter, NoBracket)
    /\ UNCHANGED <<calendar, model>>

\* model.yield_from_clean_price(clean_price, settlement, y0=..., bracket=...)
\* on a price of the client's own
YieldFromPrice ==
    /\ model # NoModel
    /\ call.op = "CashflowModel"
    /\ \E p \in SolverPrices, s \in SolverSettlements(model), o \in SolverOptions :
          /\ priceable(model, yu_centi(1), s, generate_cashflow_schedule(model))
          /\ call' = [op |-> "yield_from_price", clean_price |-> r_of_int(p),
                      settlement |-> s, ex_div_business_days |-> DefaultExDiv,
                      y0 |-> o.y0, tol |-> DefaultTol, max_iter |-> DefaultMaxIter,
                      bracket |-> o.bracket]
          /\ ret' = yield_from_clean_price(model, r_of_int(p), s, DefaultExDiv, o.y0,
                                           DefaultTol, DefaultMaxIter, o.bracket)
    /\ UNCHANGED <<calendar, model>>

NextPricing ==
    \/ NewPricingModel
    \/ AccruedInterest
    \/ AccruedInterestNextDay
    \/ DirtyPriceFromYield
    \/ CleanPriceFromYield
    \/ YieldFromCleanPrice
    \/ YieldFromPrice

SpecPricing == InitPricing /\ [][NextPricing]_vars

(***************************************************************************)
(* Matrices and targets the optimiser is exercised on.                     *)
(***************************************************************************)
\* the most rows (dates) of a matrix handed to the solver directly
MaxPeriods == 3

BondColumns == {1, 2}

RunningTotals == {0, 1, 2}

\* running totals never fall from one date to the next
Matrices ==
    UNION {{C \in [1 .. m -> [1 .. n -> RunningTotals]] :
               \A i \in 1 .. (m - 1) : \A j \in 1 .. n : C[i][j] <= C[i + 1][j]} :
           m \in 1 .. MaxPeriods, n \in BondColumns}

\* the weights a target is built from
KnownWeights == {-1, 1, 2}

\* what is added to the last entry of the target built from the weights
Perturbations == {0, 1}

\* C . w0 as integers, e added to the last entry
target_of(C, w0, e) ==
    [i \in DOMAIN C |->
        (IF Len(w0) = 1 THEN C[i][1] * w0[1] ELSE C[i][1] * w0[1] + C[i][2] * w0[2])
        + (IF i = Len(C) THEN e ELSE 0)] \o <<>>

\* the start and end dates of a target schedule
TargetStarts == {date(2021, 1, 15), date(2021, 1, 31), date(2020, 2, 29)}

TargetEnds ==
    {date(2021, 1, 14), date(2021, 1, 31), date(2021, 3, 30), date(2021, 3, 31),
     date(2021, 4, 15), date(2024, 2, 28), date(2024, 2, 29)}

TargetFrequencies == {"monthly", "annually", "weekly"}

TargetAmounts == {0, 100}

\* a frame of whole amounts
frame_of_ints(index, columns, values) == DataFrame(index, columns, mat_of_ints(values))

\* bond cashflow matrices: none, one bond, two bonds with coupon dates that
\* pay nothing
BondMatrices ==
    {DataFrame(<<>>, <<>>, <<>>),
     frame_of_ints(<<date(2021, 1, 29), date(2021, 3, 31)>>, <<"A">>, <<(<<0>>), (<<100>>)>>),
     frame_of_ints(<<date(2021, 1, 31), date(2021, 2, 26), date(2021, 4, 15)>>, <<"A", "B">>,
                   <<(<<0, 2>>), (<<0, 0>>), (<<100, 102>>)>>)}

TimelineSettlements ==
    {NoDate, date(2021, 1, 1), date(2021, 1, 31), date(2021, 3, 31), date(2021, 4, 15)}

\* the longest target schedule that is put on a unified timeline
MaxTargetRows == 4

(***************************************************************************)
(* Databases and arguments build_portfolio is exercised on.                *)
(***************************************************************************)
\* 4% 2021-02-15, a zero coupon 2021-03-31 and 2% 2021-06-30
GiltA == Instrument("A", "bond", date(2020, 2, 15), date(2021, 2, 15), q_int(4), "")

GiltB == Instrument("B", "Bond", date(2020, 9, 30), date(2021, 3, 31), q_int(0), "")

GiltC == Instrument("C", "bond", date(2020, 6, 30), date(2021, 6, 30), q_int(2), "")

\* matures with GiltA, issued before it
GiltD == Instrument("D", "bond", date(2019, 8, 15), date(2021, 2, 15), q_int(6), "")

BondLists == {<<>>, <<GiltA>>, <<GiltC, GiltB, GiltA>>, <<GiltA, GiltD>>}

BuildHolidays == {date(2021, 3, 31)}

\* the latest dirty price of each instrument, or none
PriceBooks ==
    {[isin \in {"A", "B", "C", "D"} |->
         IF isin = "A" THEN q_int(101) ELSE IF isin = "B" THEN b
         ELSE IF isin = "C" THEN q_int(97) ELSE q_int(103)] :
        b \in {q_int(99), NoNumber}}

Environments ==
    {[SETTLEMENT_DATE |-> s, today |-> date(2021, 2, 19)] :
        s \in {NoDate, date(2021, 1, 10), date(2021, 4, 1), date(2021, 12, 31)}}

Database(bonds, holidays, dirty_price, env) ==
    [bonds |-> bonds, holidays |-> holidays, dirty_price |-> dirty_price, env |-> env]

Databases ==
    {Database(bonds, BuildHolidays, dirty_price, env) :
        bonds \in BondLists, dirty_price \in PriceBooks, env \in Environments}

\* the databases build_portfolio of portfolio/builders.py tells apart
BondDatabases ==
    {db \in Databases : /\ db.env.SETTLEMENT_DATE = NoDate
                        /\ db.dirty_price["B"] # NoNumber}

SelectStarts == {date(2021, 1, 15)}

SelectEnds == {date(2021, 1, 14), date(2021, 4, 15)}

BuildSettlements == {date(2021, 1, 10), date(2021, 3, 1)}

Budgets == {100, 250}

BuildFrequencies == {"monthly", "weekly"}

(***************************************************************************)
(* The optimiser, called by a client.                                      *)
(***************************************************************************)
InitPortfolio ==
    /\ calendar = NoCalendar
    /\ model = NoModel
    /\ call = NoCall
    /\ ret = Ok(0)

\* solve_portfolio_weights(C, Y) of either module, followed by the
\* diagnostics build_portfolio computes from the weights
SolvePortfolioWeights ==
    /\ call.op = "none"
    /\ \E C \in Matrices, e \in Perturbations, module \in {"portfolio_optimiser", "builders"} :
          \E w0 \in [1 .. num_columns(C) -> KnownWeights] :
             /\ call' = [op |-> "solve_portfolio_weights", module |-> module,
                         C |-> C, Y |-> target_of(C, w0, e), w0 |-> w0, e |-> e]
             /\ ret' = Ok(the({[weights |-> w,
                                mse |-> mse_of(residuals_of(mat_of_ints(C), vec_of_ints(target_of(C, w0, e)), w)),
                                r_squared |-> r_squared_of(residuals_of(mat_of_ints(C), vec_of_ints(target_of(C, w0, e)), w),
                                                           vec_of_ints(target_of(C, w0, e)))] :
                               w \in {IF module = "builders"
                                      THEN solve_portfolio_weights_inv(mat_of_ints(C), vec_of_ints(target_of(C, w0, e)))
                                      ELSE solve_portfolio_weights(mat_of_ints(C), vec_of_ints(target_of(C, w0, e)))}}))
    /\ UNCHANGED <<calendar, model>>

\* generate_target_cashflows(start, end, frequency, amount)
GenerateTargetCashflows ==
    /\ call.op = "none"
    /\ \E start \in TargetStarts, end \in TargetEnds, frequency \in TargetFrequencies,
          amount \in TargetAmounts :
          /\ call' = [op |-> "generate_target_cashflows", target_start_date |-> start,
                      target_end_date |-> end, frequency |-> frequency, amount |-> amount]
          /\ ret' = generate_target_cashflows(start, end, frequency, r_of_int(amount))
    /\ UNCHANGED <<calendar, model>>

\* create_unified_timeline(cf_target, cf_mat, settlement_date, drop_zeros) on
\* the target schedule just generated
CreateUnifiedTimeline ==
    /\ call.op = "generate_target_cashflows"
    /\ ret.err = "none"
    /\ Len(ret.val.index) <= MaxTargetRows
    /\ \E cf_mat \in BondMatrices, settlement_date \in TimelineSettlements,
          drop_zeros \in BOOLEAN :
          /\ call' = [op |-> "create_unified_timeline", cf_target |-> ret.val,
                      cf_mat |-> cf_mat, settlement_date |-> settlement_date,
                      drop_zeros |-> drop_zeros]
          /\ ret' = create_unified_timeline(ret.val, cf_mat, settlement_date, drop_zeros)
    /\ UNCHANGED <<calendar, model>>

\* portfolio_builders.build_portfolio(select_start_date, select_end_date,
\* settlement_date, target_amount, frequency) on a database
BuildPortfolio ==
    /\ call.op = "none"
    /\ \E db \in Databases, start \in SelectStarts, end \in SelectEnds,
          settlement \in BuildSettlements, budget \in Budgets,
          frequency \in BuildFrequencies :
          /\ call' = [op |-> "build_portfolio", db |-> db, select_start_date |-> start,
                      select_end_date |-> end, settlement_date |-> settlement,
                      target_amount |-> budget, frequency |-> frequency]
          /\ ret' = build_portfolio(db, start, end, settlement, r_of_int(budget), frequency)
    /\ UNCHANGED <<calendar, model>>

\* portfolio.builders.build_portfolio with the same arguments
BuildPortfolioWeights ==
    /\ call.op = "none"
    /\ \E db \in BondDatabases, start \in SelectStarts, end \in SelectEnds,
          settlement \in BuildSettlements, budget \in Budgets,
          frequency \in BuildFrequencies :
          /\ call' = [op |-> "build_portfolio_weights", db |-> db,
                      select_start_date |-> start, select_end_date |-> end,
                      settlement_date |-> settlement, target_amount |-> budget,
                      frequency |-> frequency]
          /\ ret' = build_portfolio_weights(db, start, end, settlement, r_of_int(budget),
                                            frequency)
    /\ UNCHANGED <<calendar, model>>

NextPortfolio ==
    \/ SolvePortfolioWeights
    \/ GenerateTargetCashflows
    \/ CreateUnifiedTimeline
    \/ BuildPortfolio
    \/ BuildPortfolioWeights

SpecPortfolio == InitPortfolio /\ [][NextPortfolio]_vars

(***************************************************************************)
(* The yield solver, followed pass by pass.                                *)
(***************************************************************************)
running(position) == call.op = "yield_from_clean_price passes" /\ call.pc = position

\* a step of the call: the locals after it, and what it returns or raises
\* if it ends the call
Step(outcome) ==
    /\ call' = outcome.next
    /\ ret' = IF outcome.out = Pending THEN ret ELSE outcome.out
    /\ UNCHANGED <<calendar, model>>

\* model.yield_from_clean_price(clean_price, settlement, y0=..., max_iter=...,
\* bracket=...) is entered
SolverCall ==
    /\ model # NoModel
    /\ call.op = "CashflowModel"
    /\ \E p \in SolverPrices, s \in SolverSettlements(model), o \in SolverOptions,
          n \in SolverIterations :
          /\ priceable(model, yu_centi(1), s, generate_cashflow_schedule(model))
          /\ LET c  == [op |-> "yield_from_clean_price passes", pc |-> "entry",
                        clean_price |-> r_of_int(p), settlement |-> s,
                        ex_div_business_days |-> DefaultExDiv, y0 |-> o.y0,
                        tol |-> DefaultTol, max_iter |-> n, bracket |-> o.bracket,
                        target_dirty |-> r_of_int(0), result |-> Pending] @@ NoLocals
                 ai == accrued_interest(model, s, DefaultExDiv)
             IN  \E outcome \in {IF ai.err # "none" THEN [next |-> finished(c, ai), out |-> ai]
                                   ELSE [next |-> entered(model, c, ai), out |-> Pending]} :
                    Step(outcome)

\* fa, fb = f(a), f(b)
SolverEnds ==
    /\ running("ends")
    /\ \E fa \in {f(context_of_run(model, call), call.a)},
          fb \in {f(context_of_run(model, call), call.b)} :
          IF fa.err # "none" THEN Step([next |-> finished(call, fa), out |-> fa])
          ELSE IF fb.err # "none" THEN Step([next |-> finished(call, fb), out |-> fb])
          ELSE Step([next |-> [call EXCEPT !.pc = "while", !.fa = fa, !.fb = fb],
                     out |-> Pending])

\* the body of the while loop: the bracket is widened symmetrically
SolverExpand ==
    /\ running("while")
    /\ may_expand(call.fa.val, call.fb.val, call.expand)
    /\ Step([next |-> [call EXCEPT !.pc = "ends",
                                   !.a = z_max(min_yield(model),
                                               z_sub(call.a, z_sub(call.b, call.a))),
                                   !.b = z_add(call.b, z_sub(call.b, call.a)),
                                   !.expand = call.expand + 1],
             out |-> Pending])

\* the while loop is left
SolverBracketed ==
    /\ running("while")
    /\ ~may_expand(call.fa.val, call.fb.val, call.expand)
    /\ \E outcome \in {after_expansion(model, call)} : Step(outcome)

\* one pass of "for _ in range(max_iter)"
SolverBisect ==
    /\ running("bisect")
    /\ call.passes < call.max_iter
    /\ \E b \in {bisect_step(context_of_run(model, call), call.bisecting)} :
          IF b.out # Pending THEN Step([next |-> finished(call, b.out), out |-> b.out])
          ELSE Step([next |-> [call EXCEPT !.bisecting = b, !.passes = call.passes + 1],
                     out |-> Pending])

\* return float(0.5 * (lo + hi))
SolverBisected ==
    /\ running("bisect")
    /\ call.passes >= call.max_iter
    /\ Step([next |-> finished(call, bisect_result(call.bisecting)),
             out |-> bisect_result(call.bisecting)])

\* one pass of "for y in anchors"
SolverScan ==
    /\ running("scan")
    /\ call.i <= Len(call.anchors)
    /\ \E fy \in {f(context_of_run(model, call), call.anchors[call.i])} :
          \E outcome \in {scan_pass(call, call.anchors[call.i], fy)} : Step(outcome)

\* raise RuntimeError("Failed to bracket the yield. ...")
SolverUnbracketed ==
    /\ running("scan")
    /\ call.i > Len(call.anchors)
    /\ Step([next |-> finished(call, Raise("RuntimeError")), out |-> Raise("RuntimeError")])

\* the passes of a call that has been entered
SolverPass ==
    \/ SolverEnds
    \/ SolverExpand
    \/ SolverBracketed
    \/ SolverBisect
    \/ SolverBisected
    \/ SolverScan
    \/ SolverUnbracketed

NextSolver == NewPricingModel \/ SolverCall \/ SolverPass

\* a call that has been entered goes on running
SpecSolver == InitPricing /\ [][NextSolver]_vars /\ WF_vars(SolverPass)

(***************************************************************************)
(* The time series rows a client stores, and the database it stores them   *)
(* in.                                                                     *)
(***************************************************************************)
\* InstrumentData(instrument_id=..., data_date=..., ...)
InstrumentData(instrument_id, data_date, data_type, value, source, resolution) ==
    [instrument_id |-> instrument_id,
     data_date     |-> data_date,
     data_type     |-> data_type,
     value         |-> value,
     source        |-> source,
     resolution    |-> resolution,
     unit          |-> str("percent"),
     attrs         |-> <<>>]

\* the most rows a client stores one after the other
MaxInserts == 2

SeriesRows ==
    {InstrumentData(id, d, str("yield"), v, s, r) :
        id \in {str("GB00TEST0003"), str("GB00TEST0004")},
        d \in {py_date(date(2024, 1, 1)), py_date(date(2024, 1, 2)),
               py_datetime(date(2024, 1, 1), 12)},
        v \in {q_int(3), q_norm(301, 100)},
        s \in {str("Test"), str("DMO"), Null},
        r \in {str("daily"), str("weekly")}}

InitDatabase ==
    /\ calendar = NoCalendar
    /\ model = NoTables
    /\ call = NoCall
    /\ ret = Ok(0)

\* create_instrument_data_table(conn)
CreateInstrumentDataTable ==
    /\ model.kind = "sqlite3.Connection"
    /\ call.op = "none"
    /\ model' = create_instrument_data_table(model).conn
    /\ ret' = Ok(create_instrument_data_table(model).exists)
    /\ call' = [op |-> "create_instrument_data_table", inserts |-> 0]
    /\ UNCHANGED calendar

\* insert_instrument_data(conn, row), the rows stored before the call kept
\* by the client
InsertInstrumentData ==
    /\ model.kind = "sqlite3.Connection"
    /\ call.op # "none"
    /\ call.inserts < MaxInserts
    /\ \E row \in SeriesRows :
          /\ model' = insert_instrument_data(model, row).conn
          /\ ret' = insert_instrument_data(model, row).status
          /\ call' = [op |-> "insert_instrument_data", row |-> row,
                      before |-> model.instrument_data.rows,
                      inserts |-> call.inserts + 1]
    /\ UNCHANGED calendar

NextDatabase == CreateInstrumentDataTable \/ InsertInstrumentData

SpecDatabase == InitDatabase /\ [][NextDatabase]_vars

(***************************************************************************)
(* Properties of the calendar.                                             *)
(***************************************************************************)
RollConv == {"f", "p", "mf"}

same_month(a, b) == year_of(a) = year_of(b) /\ month_of(a) = month_of(b)

first_of_month(d) == date(year_of(d), month_of(d), 1)

last_of_month(d) ==
    date(year_of(d), month_of(d), days_in_month(year_of(d), month_of(d)))

month_has_business_day(d, holidays) ==
    \E x \in first_of_month(d) .. last_of_month(d) : is_business_day(x, holidays)

\* C9: adjust is idempotent under each of the three conventions: adjusting an
\* adjusted date returns that date again.
C9_AdjustIdempotent ==
    (call.op = "adjust_again" /\ call.convention \in RollConv)
        => (ret.err = "none" /\ ret.val = call.d)

\* C9 witness: a date that the first adjust moved has been adjusted again.
C9_Witness ==
    /\ call.op = "adjust_again"
    /\ call.convention = "mf"
    /\ call.original # call.d
    /\ ret = Ok(call.d)

C11_AdjustIsNearestBusinessDay ==
    /\ (call.op = "adjust" /\ call.convention = "f")
          => /\ ret.err = "none"
             /\ ret.val >= call.d
             /\ cal_is_business_day(calendar, ret.val)
             /\ \A x \in call.d .. (ret.val - 1) : ~cal_is_business_day(calendar, x)
    /\ (call.op = "adjust" /\ call.convention = "p")
          => /\ ret.err = "none"
             /\ ret.val <= call.d
             /\ cal_is_business_day(calendar, ret.val)
             /\ \A x \in (ret.val + 1) .. call.d : ~cal_is_business_day(calendar, x)

\* the business days of the calendar among the dates lo .. hi
business_days_in(self, lo, hi) == {x \in lo .. hi : cal_is_business_day(self, x)}

\* C12: workday(start, n) for n > 0 returns the business day d > start with
\* exactly n business days in (start, d], for n < 0 the business day
\* d < start with exactly |n| business days in [d, start); workday(start, 0)
\* returns start if it is a business day, else the next business day after
\* it; workday(2025-01-01, 1) with no holidays is 2025-01-02.
C12_WorkdayCountsBusinessDays ==
    call.op = "workday"
    => /\ ret.err = "none"
       /\ cal_is_business_day(calendar, ret.val)
       /\ call.days > 0
             => /\ ret.val > call.start
                /\ Cardinality(business_days_in(calendar, call.start + 1, ret.val))
                      = call.days
       /\ call.days < 0
             => /\ ret.val < call.start
                /\ Cardinality(business_days_in(calendar, ret.val, call.start - 1))
                      = -call.days
       /\ call.days = 0
             => /\ ret.val >= call.start
                /\ business_days_in(calendar, call.start, ret.val) = {ret.val}
       /\ (/\ call.start = date(2025, 1, 1)
           /\ call.days = 1
           /\ calendar = BusinessDayCalendar({}, {5, 6}))
             => ret.val = date(2025, 1, 2)

\* C12 witness: workday moved several business days from a business day and
\* passed days that are not business days on the way.
C12_Witness ==
    /\ call.op = "workday"
    /\ call.days >= 2
    /\ cal_is_business_day(calendar, call.start)
    /\ ret.err = "none"
    /\ ret.val - call.start > call.days

\* the call counted the business days of (a, b), or of [a, b] when inclusive
counts_between ==
    abs(ret.val)
        = Cardinality(business_days_in(
              calendar,
              (IF call.a < call.b THEN call.a ELSE call.b)
                  + (IF call.inclusive THEN 0 ELSE 1),
              (IF call.a < call.b THEN call.b ELSE call.a)
                  - (IF call.inclusive THEN 0 ELSE 1)))

\* the result of the call with a and b exchanged, signed
reversed_between ==
    business_days_between(calendar, call.b, call.a, call.inclusive, TRUE)

\* the unsigned result is the absolute value of the signed one
magnitude_when_unsigned ==
    ~call.signed
        => ret.val = abs(business_days_between(calendar, call.a, call.b,
                                               call.inclusive, TRUE))

\* C13 as stated: business_days_between(a, b) counts the business days
\* strictly inside (a, b) by default and inside [a, b] when inclusive; for
\* all a, b the signed result is minus the signed result of (b, a), and the
\* unsigned result is the absolute value of the signed one.
C13_BetweenAntisymmetric ==
    call.op = "business_days_between"
    => /\ ret.err = "none"
       /\ counts_between
       /\ call.signed => ret.val = -reversed_between
       /\ magnitude_when_unsigned

\* C13 amended: the same count; for all a # b the signed result is minus the
\* signed result of (b, a), while for a = b the result is 1 when inclusive
\* and a is a business day and 0 otherwise; the unsigned result is the
\* absolute value of the signed one.
C13_BetweenAntisymmetricOffDiagonal ==
    call.op = "business_days_between"
    => /\ ret.err = "none"
       /\ counts_between
       /\ (call.signed /\ call.a # call.b) => ret.val = -reversed_between
       /\ call.a = call.b
             => ret.val = (IF call.inclusive /\ cal_is_business_day(calendar, call.a)
                           THEN 1 ELSE 0)
       /\ magnitude_when_unsigned

\* C13 witness: a signed count from a later date back to an earlier one,
\* over several business days and at least one day that is not one.
C13_Witness ==
    /\ call.op = "business_days_between"
    /\ call.signed
    /\ call.a > call.b
    /\ ret.err = "none"
    /\ ret.val <= -2
    /\ call.a - call.b > 1 - ret.val


(***************************************************************************)
(* Properties of the schedule.                                             *)
(***************************************************************************)
generated == call.op = "generate_cashflow_schedule"

returned_schedule == generated /\ ret.err = "none"

no_hints(self) ==
    /\ self.first_coupon_length = ""
    /\ self.first_coupon_date = NoDate
    /\ self.last_coupon_date = NoDate

rows_of(schedule) == DOMAIN schedule

\* the period of the row is one coupon period long, counted back from its end
regular_row(self, row) ==
    row.period_start = add_months(row.quasi_date, -_months_per_period(self))

\* notional x decimal coupon rate / frequency
full_coupon(self) ==
    r_of_q(q_div(q_mul(self.notional, self.coupon_rate), q_int(self.frequency)))

\* half a unit of the tenth decimal place
half_ulp10 == r_make(z_of(1), <<0, 0, 200>>)

\* C1 as stated: for every bond with issue_date <= maturity_date and a
\* supported frequency (no stub hints given), generate_cashflow_schedule
\* returns at least one row, period_end strictly increases along the rows and
\* the last row ends at maturity_date.
C1_ScheduleShape ==
    (/\ generated
     /\ model.issue_date <= model.maturity_date
     /\ model.frequency \in {1, 2, 4, 12}
     /\ no_hints(model))
        => /\ ret.err = "none"
           /\ Len(ret.val) >= 1
           /\ \A i \in rows_of(ret.val) : \A j \in rows_of(ret.val) :
                 i < j => ret.val[i].period_end < ret.val[j].period_end
           /\ ret.val[Len(ret.val)].period_end = model.maturity_date

\* C2: in every returned schedule the principal is the notional on the row
\* that ends at maturity_date, that row is the last one and the only one
\* ending there, and the principal is zero on every other row.
C2_PrincipalOnlyAtMaturity ==
    returned_schedule
        => /\ ret.val[Len(ret.val)].period_end = model.maturity_date
           /\ ret.val[Len(ret.val)].principal = model.notional
           /\ \A i \in rows_of(ret.val) :
                 i < Len(ret.val)
                    => /\ ret.val[i].period_end # model.maturity_date
                       /\ ret.val[i].principal = q_int(0)

\* C2 witness: a returned schedule of several rows.
C2_Witness ==
    /\ returned_schedule
    /\ Len(ret.val) >= 3
    /\ model.notional # q_int(0)

\* whole coupon periods between issue and maturity, counted from either end
whole_periods(self, k) ==
    /\ add_months(self.issue_date, k * _months_per_period(self)) = self.maturity_date
    /\ add_months(self.maturity_date, -(k * _months_per_period(self))) = self.issue_date

\* C3 as stated: when issue and maturity are a whole number k >= 1 of coupon
\* periods apart and no stub hint or first/last coupon date is given, the
\* schedule has k rows, every accrual_factor is 1/frequency and no row is
\* flagged is_stub.
C3_WholePeriodsAreRegular ==
    \A k \in 1 .. MaxTermMonths :
        (generated /\ no_hints(model) /\ whole_periods(model, k))
            => /\ ret.err = "none"
               /\ Len(ret.val) = k
               /\ \A i \in rows_of(ret.val) :
                     /\ ret.val[i].accrual_factor = q_norm(1, model.frequency)
                     /\ ~ret.val[i].is_stub

\* the example of C4: the ten-year 5% semi-annual bond has 20 rows of coupon
\* 2.5 and a final principal of 100
C4_Example ==
    (generated /\ model = CashflowModel(TenYearGilt).val)
        => /\ ret.err = "none"
           /\ Len(ret.val) = 20
           /\ \A i \in rows_of(ret.val) :
                 ret.val[i].coupon_amount = [whole |-> 2, hi |-> 50000, lo |-> 0]
           /\ ret.val[20].principal = q_int(100)

\* C4 as stated: every regular row has coupon_amount equal to
\* notional x decimal coupon rate / frequency.
C4_CouponIsExact ==
    /\ C4_Example
    /\ returned_schedule
          => \A i \in rows_of(ret.val) :
                regular_row(model, ret.val[i])
                    => r_eq(r_of_dec(ret.val[i].coupon_amount), full_coupon(model))

\* C4 amended: every regular row has coupon_amount equal to
\* notional x decimal coupon rate / frequency rounded to ten decimal places
\* (a ten-place decimal at most half a unit of the tenth place away from it);
\* the ten-year example has 20 rows of 2.5 and a final principal of 100.
C4_CouponIsRounded ==
    /\ C4_Example
    /\ returned_schedule
          => \A i \in rows_of(ret.val) :
                regular_row(model, ret.val[i])
                    => r_le(r_abs(r_sub(r_of_dec(ret.val[i].coupon_amount),
                                        full_coupon(model))),
                            half_ulp10)

\* C4 witness: a regular row whose full coupon has more than ten decimals.
C4_Witness ==
    /\ returned_schedule
    /\ \E i \in rows_of(ret.val) :
          /\ regular_row(model, ret.val[i])
          /\ ~r_eq(r_of_dec(ret.val[i].coupon_amount), full_coupon(model))


(***************************************************************************)
(* Properties of accrued interest and of the prices.                       *)
(***************************************************************************)
schedule_of(self) == generate_cashflow_schedule(self).val

\* the row of the coupon period holding the settlement of the call
current_row == schedule_of(model)[_find_period_row(schedule_of(model), call.settlement)]

\* the call is accrued_interest for a settlement inside a coupon period
accrued_in_a_period ==
    /\ call.op = "accrued_interest"
    /\ ret.err = "none"
    /\ _find_period_row(schedule_of(model), call.settlement) # 0

current_ex_div_date ==
    _ex_div_date(model, current_row.adjusted_date, call.ex_div_business_days)

no_stubs(schedule) == \A i \in rows_of(schedule) : ~schedule[i].is_stub

\* the coupon of the part of the period from settlement to period_end
remaining_coupon(self, row, settlement) ==
    q_div(q_mul(q_mul(self.notional, self.coupon_rate),
                q_int(row.period_end - settlement)),
          q_int(self.frequency
                * (row.quasi_date - add_months(row.quasi_date, -_months_per_period(self)))))

\* both calls raise the same error, or both return the same amount
same_result(a, b) ==
    /\ a.err = b.err
    /\ a.err = "none" => r_eq(a.val, b.val)

\* C5 as stated: for a schedule with no stubs, any admissible yield y and
\* any settlement before maturity, yield_from_clean_price on the clean price
\* of y at that settlement, with its default tol and max_iter, returns a
\* yield within tol of y.
C5_RoundTripWithinTol ==
    (/\ call.op = "yield_from_clean_price"
     /\ no_stubs(schedule_of(model))
     /\ call.settlement < model.maturity_date)
    => /\ ret.err = "none"
       /\ r_le(r_abs(r_make(z_sub(ret.val, call.priced_at), yield_den)), call.tol)

\* C6 as stated: within a regular coupon period with positive coupon,
\* accrued_interest is 0 when settlement equals period_start and strictly
\* increases with settlement before the ex-dividend date, never above the
\* coupon_amount of the row.
C6_AccruedGrowsFromZero ==
    (/\ accrued_in_a_period
     /\ regular_row(model, current_row)
     /\ r_sign(r_of_dec(current_row.coupon_amount)) > 0
     /\ call.settlement < current_ex_div_date)
    => /\ call.settlement = current_row.period_start => ret.val = q_int(0)
       /\ (call.before # <<>> /\ current_row.period_start < call.settlement)
              => q_lt(call.before[1], ret.val)
       /\ r_le(r_of_q(ret.val), r_of_dec(current_row.coupon_amount))

\* C7: for every settlement with ex-dividend date <= settlement < period_end
\* of the period holding it, accrued_interest returns the negated coupon of
\* the remaining part of the period (settlement to period_end): a value
\* <= 0 that rises towards 0 from one day of the window to the next.
C7_ExDivAccruedIsNegatedRemainder ==
    (/\ accrued_in_a_period
     /\ call.settlement < model.maturity_date
     /\ current_ex_div_date <= call.settlement)
    => /\ ret.val = q_neg(remaining_coupon(model, current_row, call.settlement))
       /\ q_le(ret.val, q_int(0))
       /\ (/\ call.before # <<>>
           /\ current_row.period_start < call.settlement
           /\ current_ex_div_date < call.settlement)
              => q_lt(call.before[1], ret.val)

\* a settlement on the second day of an ex-div window, the accrued interest
\* of the day before kept, and a negative answer
C7_Witness ==
    /\ accrued_in_a_period
    /\ call.ex_div_business_days = DefaultExDiv
    /\ call.before # <<>>
    /\ current_ex_div_date < call.settlement
    /\ q_lt(ret.val, q_int(0))

\* C8 as stated: for every yield y, settlement and ex_div_business_days e,
\* clean_price_from_yield(y, settlement, e) is dirty_price_from_yield(y,
\* settlement, e) minus accrued_interest(settlement, e).
C8_CleanIsDirtyMinusAccrued ==
    call.op = "clean_price_from_yield"
    => same_result(ret,
                   dirty_minus_accrued(
                       dirty_price_from_yield(model, call.y, call.settlement,
                                              call.ex_div_business_days),
                       accrued_interest(model, call.settlement,
                                        call.ex_div_business_days)))

(***************************************************************************)
(* Properties of the optimiser.                                            *)
(***************************************************************************)
solved == call.op = "solve_portfolio_weights"

\* the columns of the integer matrix C (one or two) are linearly independent
full_column_rank(C) ==
    IF num_columns(C) = 1 THEN \E i \in DOMAIN C : C[i][1] # 0
    ELSE \E i \in DOMAIN C, k \in DOMAIN C :
            C[i][1] * C[k][2] - C[k][1] * C[i][2] # 0

\* Y = C . w0 for the weights w0 the target was built from
exact_target == call.e = 0

constant_target == \A i \in DOMAIN call.Y : call.Y[i] = call.Y[1]

returned_known_weights ==
    /\ ret.err = "none"
    /\ \A j \in DOMAIN call.w0 : r_eq(ret.val.weights[j], r_of_int(call.w0[j]))
    /\ r_sign(ret.val.mse) = 0

is_number(x) == x \notin {NaN, MinusInf}

C14_Example ==
    (solved /\ call.C = <<(<<1, 0>>), (<<1, 1>>)>> /\ call.Y = <<1, 2>>)
        => /\ r_eq(ret.val.weights[1], r_of_int(1))
           /\ r_eq(ret.val.weights[2], r_of_int(1))

unified == call.op = "create_unified_timeline"

\* the dates of either input that are strictly after the settlement date
later_dates ==
    {d \in dates_of(call.cf_target) \cup dates_of(call.cf_mat) :
        call.settlement_date = NoDate \/ d > call.settlement_date}

\* the value the input frame holds for a date, zero when it has no such date
input_cell(frame, d, j) ==
    IF d \in dates_of(frame) THEN row_at(frame, d)[j] ELSE r_of_int(0)

\* C17: create_unified_timeline with drop_zeros=True never returns a row in
\* which every column, the target included, is exactly zero.
C17_NoAllZeroRow ==
    (unified /\ call.drop_zeros /\ ret.err = "none")
        => \A i \in DOMAIN ret.val.index :
              \E j \in DOMAIN ret.val.columns : r_sign(ret.val.values[i][j]) # 0

\* C17 witness: the inputs hold a date after settlement on which nothing is
\* paid and nothing is targeted, and the timeline came back without it.
C17_Witness ==
    /\ unified
    /\ call.drop_zeros
    /\ ret.err = "none"
    /\ ret.val.index # <<>>
    /\ \E d \in later_dates :
          /\ d \notin dates_of(ret.val)
          /\ d \in dates_of(call.cf_mat)

\* C18: create_unified_timeline returns only rows dated strictly after
\* settlement_date, the target column first and the bond columns after it,
\* each cell holding the input cashflow of its date and column, or zero when
\* the input has none; it fails with ValueError (no dates after settlement),
\* returning nothing, when no date of either input is strictly after
\* settlement_date.
C18_TimelineAfterSettlement ==
    unified
    => /\ later_dates = {} => ret.err = "ValueError"
       /\ later_dates # {} => ret.err = "none"
       /\ ret.err = "none"
             => /\ dates_of(ret.val) \subseteq later_dates
                /\ ret.val.columns = call.cf_target.columns \o call.cf_mat.columns
                /\ ret.val.columns[1] = "target"
                /\ \A i \in DOMAIN ret.val.index :
                      /\ r_eq(ret.val.values[i][1],
                              input_cell(call.cf_target, ret.val.index[i], 1))
                      /\ \A j \in DOMAIN call.cf_mat.columns :
                            r_eq(ret.val.values[i][j + 1],
                                 input_cell(call.cf_mat, ret.val.index[i], j))
                /\ ~call.drop_zeros => dates_of(ret.val) = later_dates

\* C18 witness: a settlement date that cuts off dates of both inputs, two
\* bond columns, and a date of the target the bonds do not pay on.
C18_Witness ==
    /\ unified
    /\ ret.err = "none"
    /\ call.settlement_date # NoDate
    /\ \E d \in dates_of(call.cf_target) : d <= call.settlement_date
    /\ \E d \in dates_of(call.cf_mat) : d <= call.settlement_date
    /\ Len(call.cf_mat.columns) = 2
    /\ \E d \in dates_of(ret.val) : d \notin dates_of(call.cf_mat)

targeted == call.op = "generate_target_cashflows"

months_of(frequency) == IF frequency = "monthly" THEN 1 ELSE 12

\* the k for which start + k periods, counted from start, is not after end
periods_within ==
    {k \in 0 .. 60 :
        add_months(call.target_start_date, k * months_of(call.frequency))
            <= call.target_end_date}

\* C19 as stated: generate_target_cashflows(start, end, frequency, amount)
\* returns, for every k >= 0 with start + k periods <= end, exactly one row
\* dated start + k periods (k months or k years counted from start) with
\* value amount, and no other rows; any other frequency fails with an error.
C19_TargetRowsCountedFromStart ==
    targeted
    => IF call.frequency \in {"monthly", "annually"}
       THEN /\ ret.err = "none"
            /\ Len(ret.val.index) = Cardinality(periods_within)
            /\ \A k \in periods_within :
                  /\ ret.val.index[k + 1]
                        = add_months(call.target_start_date, k * months_of(call.frequency))
                  /\ r_eq(ret.val.values[k + 1][1], r_of_int(call.amount))
       ELSE ret.err = "ValueError"

(***************************************************************************)
(* Properties of build_portfolio.                                          *)
(***************************************************************************)
built == call.op = "build_portfolio"

\* steps 1 to 8 of the call: the nominal weights and the prices
fit_of_call ==
    nominal_fit(call.db, call.select_start_date, call.select_end_date, call.settlement_date,
                call.frequency)

nominal_cost == total_cost_of(fit_of_call.val.nominal_weights, fit_of_call.val.prices)

\* the sum over the bonds of scaled_weight x price
value_of(bond_weights) ==
    r_sum([j \in DOMAIN bond_weights |->
              r_mul(bond_weights[j].scaled_weight, bond_weights[j].price)] \o <<>>)

\* C15: when build_portfolio of portfolio_builders.py has its nominal
\* weights, it raises the invalid-portfolio ValueError if the sum of
\* nominal_weight x price is not positive, and otherwise returns scaled
\* weights whose sum of scaled_weight x price is the caller's target_amount.
C15_ScaledToBudgetOrInvalid ==
    built /\ fit_of_call.err = "none"
    => IF r_sign(nominal_cost) <= 0
       THEN ret.err = "ValueError: Invalid portfolio"
       ELSE /\ ret.err = "none"
            /\ r_eq(value_of(ret.val.bond_weights), r_of_int(call.target_amount))

\* a portfolio of two bonds, both held, for a budget that is not the 100
\* of the target
C15_Witness ==
    /\ built
    /\ ret.err = "none"
    /\ call.target_amount = 250
    /\ ret.val.num_bonds = 2
    /\ \A j \in 1 .. 2 : r_sign(ret.val.bond_weights[j].scaled_weight) > 0
    /\ r_sign(ret.val.mse) > 0

built_weights == call.op = "build_portfolio_weights"

\* C16 as stated: the weights build_portfolio of portfolio/builders.py
\* returns for the bonds sum to 1.
C16_WeightsSumToOne ==
    built_weights /\ ret.err = "none"
    => r_eq(r_sum([j \in DOMAIN ret.val.bond_weights |->
                      ret.val.bond_weights[j].weight] \o <<>>),
            r_of_int(1))

(***************************************************************************)
(* Properties of the yield solver.                                         *)
(***************************************************************************)
solving == call.op \in {"yield_from_clean_price", "yield_from_price"}

\* what f closes over in the call
context_of_call ==
    solver_context(model, call.settlement, call.ex_div_business_days,
                   r_add(call.clean_price,
                         r_of_q(accrued_interest(model, call.settlement,
                                                 call.ex_div_business_days).val)),
                   call.tol, call.max_iter)

\* the bracket (a, b) and the brackets it is widened to, n times at most
RECURSIVE widened(_, _, _, _)
widened(min_y, a, b, n) ==
    IF n = 0 THEN {<<a, b>>}
    ELSE {<<a, b>>} \cup widened(min_y, z_max(min_y, z_sub(a, z_sub(b, a))),
                                 z_add(b, z_sub(b, a)), n - 1)

brackets_of_call ==
    IF call.bracket = NoBracket THEN {}
    ELSE widened(min_yield(model), z_max(min_yield(model), call.bracket[1]),
                 z_max(z_add(min_yield(model), yu_nano(1)), call.bracket[2]), 12)

\* the function at the ends of the brackets
ends_of(ctx, brackets) ==
    {[a |-> p[1], b |-> p[2], fa |-> f(ctx, p[1]), fb |-> f(ctx, p[2])] : p \in brackets}

strict_sign(fy) == fy.err = "none" /\ r_sign(fy.val) # 0

sign_changes(fa, fb) ==
    /\ fa.err = "none"
    /\ fb.err = "none"
    /\ r_sign(fa.val) * r_sign(fb.val) < 0

is_zero(fy) == fy.err = "none" /\ r_sign(fy.val) = 0

between(lo, y, hi) ==
    \/ z_cmp(lo, y) <= 0 /\ z_cmp(y, hi) <= 0
    \/ z_cmp(hi, y) <= 0 /\ z_cmp(y, lo) <= 0

\* no sign change anywhere: the ends of every bracket agree in sign, and so
\* do all the anchors
nowhere_bracketed(ends, vals) ==
    /\ \A e \in ends : strict_sign(e.fa) /\ strict_sign(e.fb) /\ ~sign_changes(e.fa, e.fb)
    /\ \A u, v \in vals : strict_sign(u.fy) /\ ~sign_changes(u.fy, v.fy)

\* y is a point where the function is 0, or is inside a pair of points
\* where it changes sign
justified(y, ends, vals) ==
    \/ \E e \in ends : (e.a = y /\ is_zero(e.fa)) \/ (e.b = y /\ is_zero(e.fb))
    \/ \E v \in vals : v.y = y /\ is_zero(v.fy)
    \/ \E e \in ends : sign_changes(e.fa, e.fb) /\ between(e.a, y, e.b)
    \/ \E u, v \in vals : sign_changes(u.fy, v.fy) /\ between(u.y, y, v.y)

bracketed_or_failed(result, ends, vals) ==
    /\ nowhere_bracketed(ends, vals) => result.err = "RuntimeError"
    /\ result.err = "none" => justified(result.val, ends, vals)

\* C20: when (dirty price - target) has one strict sign at both ends of
\* every bracket the call forms and at every anchor of the grid,
\* yield_from_clean_price raises RuntimeError; a yield it returns is an
\* anchor or bracket end where the function is exactly 0, or lies between
\* two such points where the function changes sign.
C20_NoYieldWithoutSignChange ==
    solving /\ accrued_interest(model, call.settlement, call.ex_div_business_days).err = "none"
    => the({bracketed_or_failed(ret, ends, vals) :
               ends \in {ends_of(context_of_call, brackets_of_call)},
               vals \in {anchor_values(context_of_call,
                                       anchors_of(model, min_yield(model), call.y0))}})

\* a price above every price of the grid, with a bracket that is widened
\* twelve times in vain
C20_Witness ==
    /\ call.op = "yield_from_price"
    /\ call.bracket = <<yu_centi(10), yu_centi(20)>>
    /\ call.settlement < model.maturity_date
    /\ r_sign(call.clean_price) > 0
    /\ ret.err = "RuntimeError"

(***************************************************************************)
(* Properties of the constructor.                                          *)
(***************************************************************************)
constructed == call.op = "CashflowModel.__init__" /\ call.frequency \in {1, 2, 4, 12}

\* the rate the claim gives a fraction in a mode
normalised(rate, unit) ==
    IF unit = "percent" THEN q_div(rate, q_int(100))
    ELSE IF unit = "decimal" THEN rate
    ELSE IF q_le(rate, q_int(20)) THEN q_div(rate, q_int(100))
    ELSE rate

\* C21 as stated: CashflowModel divides by 100 every auto-mode rate in
\* [0, 20] and every percent-mode rate, keeps every auto-mode rate above 20
\* and every decimal-mode rate, and raises for a negative rate in every
\* mode, no model being constructed.
C21_RateNormalisedOrRejected ==
    constructed
    => IF float_negative(call.coupon_rate)
       THEN ret.err = "ValueError" /\ model = NoModel
       ELSE /\ ret.err = "none"
            /\ model.coupon_rate = normalised(call.coupon_rate, call.rate_unit)

(***************************************************************************)
(* Properties of the time series table.                                    *)
(***************************************************************************)
inserting == call.op = "insert_instrument_data"

key_of(row) == <<row.instrument_id, row.data_date, row.data_type, row.source, row.resolution>>

\* the row as the table stores it
stored(row) == [c \in instrument_data_table.columns |-> fields_of(row)[c]]

\* C22 as stated: insert_instrument_data of a row whose (instrument_id,
\* data_date, data_type, source, resolution) is already stored returns
\* "skipped" and leaves the stored rows unchanged; of a row with a new key
\* it returns "inserted" and adds exactly that row.
C22_InsertIdempotentOnKey ==
    inserting
    => IF \E row \in call.before : key_of(row) = key_of(stored(call.row))
       THEN /\ ret = Ok("skipped")
            /\ model.instrument_data.rows = call.before
       ELSE /\ ret = Ok("inserted")
            /\ model.instrument_data.rows = call.before \cup {stored(call.row)}

(***************************************************************************)
(* Properties of the stubs and of the periods of a schedule.               *)
(***************************************************************************)
\* C23 as stated: in every schedule returned, a row is a stub exactly when
\* its period_start differs from its quasi_date minus one coupon period;
\* the final period after an explicit last_coupon_date is no exception.
C23_StubIffOffNominal ==
    returned_schedule
    => \A i \in rows_of(ret.val) :
          ret.val[i].is_stub <=> ~regular_row(model, ret.val[i])

\* the stub hint asks for a long first period
long_first(self) == strip(self.first_coupon_length) = "Long First"

\* the boundaries before any is removed, and those after the issue date
natural_boundaries(self) == boundaries(self, _months_per_period(self))

after_issue(self) == {d \in natural_boundaries(self) : d > self.issue_date}

\* the effective first-cashflow boundary of the model
effective_boundary(self) == first_end_eff(self, _months_per_period(self), after_issue(self))

period_ends(schedule) == {schedule[i].period_end : i \in rows_of(schedule)}

\* the first row runs from the issue date to the effective boundary and
\* accrues more than one regular period
long_first_row(self, schedule) ==
    /\ period_ends(schedule) \cap (self.issue_date + 1 .. effective_boundary(self) - 1) = {}
    /\ schedule[1].period_start = self.issue_date
    /\ schedule[1].period_end = effective_boundary(self)
    /\ q_lt(q_norm(1, self.frequency), schedule[1].accrual_factor)

\* every boundary after the issue date ends a period
nothing_removed(self, schedule) == after_issue(self) \subseteq period_ends(schedule)

\* C24 as stated: in a schedule returned under the hint "Long First" no
\* boundary lies strictly between issue_date and the effective boundary,
\* the first row runs from issue_date to that boundary and its
\* accrual_factor exceeds 1/frequency; under any other hint no natural
\* boundary is removed.
C24_LongFirstAbsorbsBoundaries ==
    returned_schedule
    => IF long_first(model) THEN long_first_row(model, ret.val)
       ELSE nothing_removed(model, ret.val)

\* the periods follow one another from the issue date to maturity
tiles(self, schedule) ==
    /\ Len(schedule) >= 1
    /\ schedule[1].period_start = self.issue_date
    /\ schedule[Len(schedule)].period_end = self.maturity_date
    /\ \A i \in rows_of(schedule) :
          /\ schedule[i].period_start < schedule[i].period_end
          /\ schedule[i].quasi_date = schedule[i].period_end
          /\ i > 1 => schedule[i].period_start = schedule[i - 1].period_end

\* C30: the periods of every schedule returned tile [issue_date,
\* maturity_date] without gap or overlap: the first period_start is
\* issue_date, each later period_start is the previous period_end, every
\* period_start is before its period_end, and quasi_date = period_end.
C30_PeriodsTile == returned_schedule => tiles(model, ret.val)

\* a schedule of three periods or more whose first period is a stub
C30_Witness ==
    /\ returned_schedule
    /\ Len(ret.val) >= 3
    /\ ret.val[1].is_stub
    /\ tiles(model, ret.val)

(***************************************************************************)
(* Properties of the dirty price.                                          *)
(***************************************************************************)
pricing_dirty == call.op = "dirty_price_from_yield"

\* the rows with period_end > settlement
future_rows_of(self, settlement) ==
    SelectSeq(schedule_of(self), LAMBDA r : r.period_end > settlement)

\* the first row with its coupon zeroed, the other rows as they are
first_coupon_zeroed(rows) ==
    [n \in DOMAIN rows |->
        IF n = 1 THEN [rows[n] EXCEPT !.coupon_amount = dec_of_int(0)] ELSE rows[n]] \o <<>>

\* the rows dirty_price_from_yield is to discount
rows_discounted(self, settlement, ex_div_business_days, rows) ==
    IF ex_div_gate(self, settlement, ex_div_business_days, rows[1])
    THEN first_coupon_zeroed(rows) ELSE rows

\* the s of the call: the elapsed fraction of the current period
s_of_call(self, settlement) ==
    elapsed_fraction(self, settlement, schedule_of(self),
                     _find_period_row(schedule_of(self), settlement))

admissible(self, y) == r_sign(one_plus_of(y, self.frequency)) > 0

\* the call is one the gate and the discounting apply to
discounting ==
    /\ pricing_dirty
    /\ generate_cashflow_schedule(model).err = "none"
    /\ future_rows_of(model, call.settlement) # <<>>
    /\ admissible(model, call.y)

\* C25 as stated: the ex-dividend gate changes only the coupon of the
\* first future row: inside the window the price is the present value of
\* the future rows with that one coupon taken as 0, principal and later
\* rows unchanged; outside the window it is the present value of the rows
\* as scheduled.
C25_GateZeroesFirstCouponOnly ==
    discounting
    => /\ ret.err = "none"
       /\ r_eq(ret.val,
               pv_from(rows_discounted(model, call.settlement, call.ex_div_business_days,
                                       future_rows_of(model, call.settlement)),
                       1, one_plus_of(call.y, model.frequency),
                       s_of_call(model, call.settlement)))

\* the share of the current period elapsed at settlement, 0 before the
\* first period
elapsed_share(self, settlement, idx) ==
    IF idx = 0 THEN q_int(0)
    ELSE q_norm(_days(schedule_of(self)[idx].period_start, settlement),
                _days(schedule_of(self)[idx].period_start, schedule_of(self)[idx].period_end))

\* C26 as stated: the elapsed fraction s of dirty_price_from_yield is 0
\* when settlement precedes the first period or is the start of the
\* current period, is at least 0 and below 1 before the current
\* period_end, and is the share of the period elapsed at settlement; the
\* price returned discounts the n-th future cashflow by
\* (1 + y/frequency)^-(n - s).
C26_ElapsedFractionOfPeriod ==
    (discounting /\ ret.err = "none")
    => /\ s_of_call(model, call.settlement)
            = elapsed_share(model, call.settlement,
                            _find_period_row(schedule_of(model), call.settlement))
       /\ q_le(q_int(0), s_of_call(model, call.settlement))
       /\ q_lt(s_of_call(model, call.settlement), q_int(1))
       /\ r_eq(ret.val,
               pv_from(future_rows_of(model, call.settlement), 1,
                       one_plus_of(call.y, model.frequency),
                       s_of_call(model, call.settlement)))

\* C28 as stated: dirty_price_from_yield raises the invalid-yield error
\* for every y with 1 + y/frequency <= 0 at every settlement, settlements
\* on or after maturity included, and returns 0 only for an admissible
\* yield when no row has period_end > settlement.
C28_InvalidYieldAlwaysRejected ==
    (pricing_dirty /\ generate_cashflow_schedule(model).err = "none")
    => /\ ~admissible(model, call.y) => ret = Raise("ValueError")
       /\ (ret.err = "none" /\ r_sign(ret.val) = 0)
            => /\ admissible(model, call.y)
               /\ future_rows_of(model, call.settlement) = <<>>

(***************************************************************************)
(* Properties of the passes of the yield solver.                           *)
(***************************************************************************)
in_solver == call.op = "yield_from_clean_price passes"

\* the anchors of the grid and the hints of y0 and of the coupon
MaxAnchors == 21

\* the work done so far is within the bounds of the loops
work_bounded ==
    in_solver
    => /\ call.pc \in {"ends", "while", "bisect", "scan", "done"}
       /\ call.expand <= 12
       /\ call.passes <= call.max_iter
       /\ call.bisections <= 1
       /\ call.i <= Len(call.anchors) + 1
       /\ Len(call.anchors) <= MaxAnchors

\* the passes a bisection can still make, and its return
bisect_left(c) == (c.max_iter - c.passes) + 1

\* the steps the call can still take from where it is: a bound that the
\* locals of the call determine
work_left(c) ==
    CASE c.pc = "done"   -> 0
      [] c.pc = "bisect" -> bisect_left(c)
      [] c.pc = "scan"   -> ((Len(c.anchors) + 1) - c.i) + 1 + (c.max_iter + 2)
      [] c.pc = "while"  -> 2 * (12 - c.expand) + 1 + (MaxAnchors + 2) + (c.max_iter + 2)
      [] c.pc = "ends"   -> 2 * (12 - c.expand) + 2 + (MaxAnchors + 2) + (c.max_iter + 2)

\* every step of a call leaves fewer steps to take, and never fewer than none
pass_decreases ==
    in_solver => /\ in_solver'
                 /\ work_left(call)' < work_left(call)
                 /\ work_left(call)' >= 0

ended == in_solver /\ call.pc = "done" /\ ret = call.result /\ ret.err # "pending"

\* C27: yield_from_clean_price terminates: a supplied bracket is expanded
\* at most 12 times, a bisection makes at most max_iter passes, the anchor
\* grid is finite and scanned once, and every step of a call that is
\* entered lowers the number of steps it can still take, so that the call
\* ends by returning a yield or raising an error.
C27_SolverTerminates == [](work_bounded) /\ [][pass_decreases]_vars

\* a call that ended after twelve expansions and a scan of every anchor,
\* and one that ended after max_iter passes of a bisection
C27_Witness ==
    /\ ended
    /\ work_left(call) = 0
    /\ \/ call.expand = 12 /\ call.i = Len(call.anchors) + 1
       \/ call.passes = call.max_iter /\ call.max_iter > 0 /\ call.bisections = 1

(***************************************************************************)
(* Properties of the bonds the weights are reported against.               *)
(***************************************************************************)
\* the bond columns of the running totals, in their order
bond_columns_of_call == Tail(fit_of_call.val.unified_running_totals.columns)

\* C29 as stated: in the portfolio build_portfolio returns, the i-th
\* solved weight is reported against the bond whose cashflows are the i-th
\* bond column of the running totals, bonds sharing a maturity included.
C29_WeightsAgainstTheirBonds ==
    (built /\ ret.err = "none")
    => /\ Len(bond_columns_of_call) = Len(ret.val.bond_weights)
       /\ \A i \in DOMAIN ret.val.bond_weights :
             /\ ret.val.bond_weights[i].nominal_weight = fit_of_call.val.nominal_weights[i]
             /\ ret.val.bond_weights[i].isin = bond_columns_of_call[i]
====
